---- MODULE Spec2Model ----
(***************************************************************************)
(* State-machine model of the DataGrid component (lytv/fms): the record    *)
(* store, the filter -> sort -> paginate pipeline, the row-selection       *)
(* tracker and the spreadsheet import, as implemented by the React         *)
(* component DataGrid.                                                     *)
(*                                                                         *)
(* A cell value is a tagged record [t, s, n]: t is "null", "str" or "num", *)
(* s the characters of a string, n the number.  Text is a sequence of      *)
(* one-character strings.  A row is [id, name, price, ver]; ver stands for *)
(* the object reference, so two rows with equal fields and different ver   *)
(* are two different objects.                                              *)
(***************************************************************************)
EXTENDS Integers, Sequences, FiniteSets, TLC

VARIABLES
    initialData,       \* the initialData prop last supplied by the caller
    rowData,           \* useState rowData: the Record Store
    selectedRows,      \* useState selectedRows: sequence of row objects
    sortConfig,        \* useState sortConfig: [key, direction]
    filterValues,      \* useState filterValues: field -> text, partial
    currentPage,       \* useState currentPage
    columnVisibility,  \* useState columnVisibility: field -> BOOLEAN
    columnPinning,     \* useState columnPinning: field -> "left"|"right"|"null"
    columnWidths,      \* useState columnWidths: field -> number
    pendingReads,      \* FileReader reads in flight (workbook names)
    engine,            \* which argument order the platform's sort uses
    emitted,           \* callbacks invoked by the last handler
    headerInput,       \* what the last handler, if it was the header
                       \* checkbox, was called with: "checked", "unchecked";
                       \* "none" after any other handler
    props,             \* the props of the last render that the model varies:
                       \* columnDefs, whether onEditClick / onDeleteClick
                       \* are supplied, isLoading
    downloads,         \* the files XLSX.writeFile has written, in order
    api                \* the product API: the products table, the last
                       \* request, the database statements it ran and its
                       \* response

vars == << initialData, rowData, selectedRows, sortConfig, filterValues,
           currentPage, columnVisibility, columnPinning, columnWidths,
           pendingReads, engine, emitted, headerInput, props, downloads,
           api >>

\* the variables of the grid
gridVars == << initialData, rowData, selectedRows, sortConfig, filterValues,
               currentPage, columnVisibility, columnPinning, columnWidths,
               pendingReads, engine, emitted, headerInput, props,
               downloads >>

----------------------------------------------------------------------------
(* Bounds of the model *)

\* the user clicks rows and row checkboxes among the first MaxRowIndex rows
\* of the rendered page
MaxRowIndex == 1
\* a row is added by hand only while fewer than MaxSelected rows are selected
MaxSelected == 2
\* file reads that may be in flight together
MaxPending == 1
\* longest row sequence enumerated as an input of the pipeline
MaxRows == 3
\* most rows of a Record Store enumerated as an input of the pagination
MaxRecords == 61

----------------------------------------------------------------------------
(* Values and text *)

Null == [t |-> "null", s |-> << >>, n |-> 0]
Str(x) == [t |-> "str", s |-> x, n |-> 0]
Num(x) == [t |-> "num", s |-> << >>, n |-> x]

IsNullish(v) == v.t = "null"

Digit(d) ==
    CASE d = 0 -> "0" [] d = 1 -> "1" [] d = 2 -> "2" [] d = 3 -> "3"
      [] d = 4 -> "4" [] d = 5 -> "5" [] d = 6 -> "6" [] d = 7 -> "7"
      [] d = 8 -> "8" [] OTHER -> "9"

RECURSIVE Decimal(_)
Decimal(k) == IF k < 10 THEN << Digit(k) >>
              ELSE Append(Decimal(k \div 10), Digit(k % 10))

\* String(value) of a defined value
ToText(v) ==
    IF v.t = "str" THEN v.s
    ELSE IF v.n < 0 THEN << "-" >> \o Decimal(0 - v.n) ELSE Decimal(v.n)

LowerChar(c) ==
    CASE c = "A" -> "a" [] c = "B" -> "b" [] c = "C" -> "c" [] OTHER -> c

toLowerCase(s) == [i \in 1..Len(s) |-> LowerChar(s[i])]

includes(hay, needle) ==
    \E i \in 0..(Len(hay) - Len(needle)) :
        SubSeq(hay, i + 1, i + Len(needle)) = needle

IsDigitChar(c) == c \in {"0", "1", "2", "3", "4", "5", "6", "7", "8", "9"}

DigitVal(c) ==
    CASE c = "0" -> 0 [] c = "1" -> 1 [] c = "2" -> 2 [] c = "3" -> 3
      [] c = "4" -> 4 [] c = "5" -> 5 [] c = "6" -> 6 [] c = "7" -> 7
      [] c = "8" -> 8 [] OTHER -> 9

\* new Date(s).getTime() is a number: the strings of the model that parse as
\* a date are the four-digit years, and the time grows with the year
IsValidDate(s) == Len(s) = 4 /\ \A i \in 1..4 : IsDigitChar(s[i])

DateTime(s) ==
    1000 * DigitVal(s[1]) + 100 * DigitVal(s[2]) + 10 * DigitVal(s[3])
      + DigitVal(s[4])

\* collation of localeCompare: digits before letters, letters by base letter,
\* lowercase before uppercase only to break a tie
BaseRank(c) ==
    IF IsDigitChar(c) THEN DigitVal(c)
    ELSE CASE LowerChar(c) = "a" -> 10 [] LowerChar(c) = "b" -> 11
           [] LowerChar(c) = "c" -> 12 [] OTHER -> 13

CaseRank(c) == IF c \in {"A", "B", "C"} THEN 1 ELSE 0

RECURSIVE LexCompare(_, _)
LexCompare(a, b) ==
    IF a = << >> /\ b = << >> THEN 0
    ELSE IF a = << >> THEN -1
    ELSE IF b = << >> THEN 1
    ELSE IF Head(a) < Head(b) THEN -1
    ELSE IF Head(a) > Head(b) THEN 1
    ELSE LexCompare(Tail(a), Tail(b))

BaseRanks(s) == [i \in 1..Len(s) |-> BaseRank(s[i])]
CaseRanks(s) == [i \in 1..Len(s) |-> CaseRank(s[i])]

localeCompare(a, b) ==
    IF LexCompare(BaseRanks(a), BaseRanks(b)) # 0
    THEN LexCompare(BaseRanks(a), BaseRanks(b))
    ELSE LexCompare(CaseRanks(a), CaseRanks(b))

----------------------------------------------------------------------------
(* Rows, the caller's data sets and the workbooks a user may import *)

Row(i, nm, pr, v) == [id |-> i, name |-> nm, price |-> pr, ver |-> v]

\* three rows, two of them without a price and one without a name
DataA ==
    << Row(1, Str(<< "A", "b" >>), Num(300), 1),
       Row(2, Str(<< "B" >>), Null, 1),
       Row(3, Null, Null, 1) >>

\* the same ids carried by other objects, every field defined
DataB ==
    << Row(1, Str(<< "A", "b" >>), Num(300), 2),
       Row(2, Str(<< "B" >>), Num(100), 2),
       Row(3, Str(<< "a" >>), Num(200), 2) >>

\* eleven rows: one more than a page holds
DataC ==
    [i \in 1..11 |->
        IF i = 11 THEN Row(11, Str(<< "a", "1" >>), Num(1), 3)
        ELSE Row(i, Str(<< "B" >>), Num(100), 3)]

\* MaxRecords rows, twenty of them named "Ab"
DataD ==
    [i \in 1..MaxRecords |->
        Row(i, IF i <= 20 THEN Str(<< "A", "b" >>) ELSE Str(<< "B" >>),
            Num(100), 4)]

\* the arrays the caller passes as initialData while the user works with the
\* selection
DataSets == {DataA, DataC}

\* The text of a Metadata cell: JSON text is represented by the value it
\* parses to, any other text by its kind ("garbage" does not parse, "empty"
\* is the empty string)
JsonText(v) == [text |-> "json", val |-> v]
GarbageText == [text |-> "garbage"]
EmptyText == [text |-> "empty"]

\* the rows every importable workbook with rows has on its first sheet
ImportedRows == << Row(2, Str(<< "B" >>), Num(100), 5) >>

\* the rows of a workbook without a Metadata sheet
OtherRows == << Row(3, Str(<< "a" >>), Num(200), 6) >>

\* a Metadata sheet as sheet_to_json returns it: key/value rows
MetadataRows(pinningText, visibilityText) ==
    << [key |-> "columnPinning", value |-> pinningText],
       [key |-> "columnVisibility", value |-> visibilityText] >>

\* a pinning map written for another column set: no entry for the actions
\* column, an entry for a column "legacy" that is not declared
ForeignPinning ==
    [f \in {"id", "name", "price", "legacy"} |->
        IF f = "price" THEN "right" ELSE IF f = "legacy" THEN "left" ELSE "null"]

ForeignVisibility == [f \in {"id", "name", "price"} |-> TRUE]

\* a pinning object whose values are not pin positions: valid JSON that a
\* file edited by hand may carry
OddPinning ==
    [f \in {"id", "name", "price"} |-> IF f = "id" THEN "top" ELSE "null"]

TwoSheets(data, metadata) ==
    [readable |-> TRUE,
     SheetNames |-> << "Data", "Metadata" >>,
     Sheets |-> [n \in {"Data", "Metadata"} |->
                   IF n = "Data" THEN data ELSE metadata]]

\* what XLSX.read gives for each file the user has from elsewhere:
\* SheetNames and Sheets, every sheet given as the rows
\* XLSX.utils.sheet_to_json returns for it; readable is false for a file
\* XLSX.read throws on
UserWorkbook(name) ==
    CASE name = "full" ->
           TwoSheets(ImportedRows,
                     MetadataRows(JsonText(ForeignPinning),
                                  JsonText(ForeignVisibility)))
      [] name = "badpin" ->
           TwoSheets(ImportedRows,
                     MetadataRows(GarbageText, JsonText(ForeignVisibility)))
      [] name = "oddpin" ->
           TwoSheets(ImportedRows,
                     MetadataRows(JsonText(OddPinning),
                                  JsonText(ForeignVisibility)))
      [] name = "badvis" ->
           TwoSheets(ImportedRows,
                     MetadataRows(JsonText(ForeignPinning), GarbageText))
      [] name = "nometa" ->
           TwoSheets(ImportedRows,
                     MetadataRows(EmptyText, EmptyText))
      [] name = "data" ->
           [readable |-> TRUE,
            SheetNames |-> << "Sheet1" >>,
            Sheets |-> [n \in {"Sheet1"} |-> OtherRows]]
      [] name = "blank" ->
           [readable |-> TRUE,
            SheetNames |-> << "Sheet1" >>,
            Sheets |-> [n \in {"Sheet1"} |-> << >>]]
      [] name = "missing" ->
           [readable |-> TRUE,
            SheetNames |-> << "Sheet1" >>,
            Sheets |-> << >>]
      [] name = "nosheet" ->
           [readable |-> TRUE, SheetNames |-> << >>, Sheets |-> << >>]
      [] OTHER ->
           [readable |-> FALSE, SheetNames |-> << >>, Sheets |-> << >>]

Files == {"full", "badpin", "badvis", "nometa", "data", "blank", "missing",
          "nosheet", "unreadable"}

----------------------------------------------------------------------------
(* Props of the component and the Column Registry *)

OnRowSelectedSupplied == TRUE
OnDataChangeSupplied == TRUE
OnColumnVisibilityChangeSupplied == TRUE
OnColumnPinningChangeSupplied == TRUE
OnEditClickSupplied == TRUE
OnDeleteClickSupplied == TRUE
OnAddClickSupplied == TRUE
OnRefreshClickSupplied == TRUE

rowsPerPage == 10

Get(col, k, dflt) == IF k \in DOMAIN col THEN col[k] ELSE dflt

DEFAULT_COL_DEF ==
    [flex |-> 1, minWidth |-> 100, editable |-> FALSE, sortable |-> TRUE,
     filter |-> TRUE, resizable |-> TRUE, floatingFilter |-> TRUE,
     pinned |-> "null"]

\* the caller's column declarations
inputColumnDefs ==
    << [field |-> "id", headerName |-> "ID", width |-> 80,
        sortable |-> FALSE, filter |-> FALSE, pinIndex |-> 2],
       [field |-> "name", headerName |-> "Name"],
       [field |-> "price", headerName |-> "Price", width |-> 120,
        pinIndex |-> 1] >>

\* MergeDefaults letting the default win over the declared value
MergeDefaults_DefaultsWin(dflt, col) ==
    [k \in (DOMAIN dflt) \cup (DOMAIN col) |->
        IF k \in DOMAIN dflt THEN dflt[k] ELSE col[k]]

\* { ..._defaultColDef, ...col }
MergeDefaults(dflt, col) ==
    [k \in (DOMAIN dflt) \cup (DOMAIN col) |->
        IF k \in DOMAIN col THEN col[k] ELSE dflt[k]]

ActionsColumn ==
    [headerName |-> "Actions", field |-> "actions", filter |-> FALSE,
     sortable |-> FALSE, editable |-> FALSE, floatingFilter |-> FALSE,
     minWidth |-> 120, maxWidth |-> 120]

\* the columnDefs useMemo: the declared columns merged with the defaults,
\* followed by the actions column when a handler is supplied and no declared
\* column has the field "actions"
EffectiveColumns(input, onEdit, onDelete, dflt) ==
    IF Len(input) = 0 THEN << >>
    ELSE LET columnsWithDefaults ==
                 [i \in 1..Len(input) |-> MergeDefaults(dflt, input[i])]
             hasActionsColumn ==
                 \E i \in 1..Len(columnsWithDefaults) :
                     columnsWithDefaults[i].field = "actions"
         IN  IF (onEdit \/ onDelete) /\ ~hasActionsColumn
             THEN Append(columnsWithDefaults, ActionsColumn)
             ELSE columnsWithDefaults

columnDefs ==
    EffectiveColumns(inputColumnDefs, OnEditClickSupplied,
                     OnDeleteClickSupplied, DEFAULT_COL_DEF)

\* the props of the grid as the caller of the model renders it; the column
\* operators below are those of these props
DefaultProps ==
    [columnDefs |-> inputColumnDefs, onEditClick |-> OnEditClickSupplied,
     onDeleteClick |-> OnDeleteClickSupplied, isLoading |-> FALSE]

\* the fields of columnDefs in declaration order
ColumnFields == [i \in 1..Len(columnDefs) |-> columnDefs[i].field]

Fields == {columnDefs[i].field : i \in 1..Len(columnDefs)}

ColumnOf(f) == CHOOSE c \in {columnDefs[i] : i \in 1..Len(columnDefs)} : c.field = f

\* the maps the effect on [columnDefs] computes; of two columns with one
\* field the later one sets the entry
LastWithField(cols, f) ==
    cols[CHOOSE i \in 1..Len(cols) :
            /\ cols[i].field = f
            /\ \A j \in 1..Len(cols) : cols[j].field = f => j <= i]

VisibilityOf(cols) ==
    [f \in {cols[i].field : i \in 1..Len(cols)} |->
        Get(LastWithField(cols, f), "hide", FALSE) # TRUE]

WidthsOf(cols) ==
    [f \in {cols[i].field : i \in 1..Len(cols)} |->
        LET col == LastWithField(cols, f)
        IN  IF Get(col, "width", 0) # 0 THEN col.width
            ELSE IF Get(col, "minWidth", 0) # 0 THEN col.minWidth
            ELSE 150]

PinningOf(cols) ==
    [f \in {cols[i].field : i \in 1..Len(cols)} |->
        LET col == LastWithField(cols, f)
        IN  IF Get(col, "pinned", "null") \in {"left", "right"}
            THEN col.pinned ELSE "null"]

initialVisibility == VisibilityOf(columnDefs)

initialWidths == WidthsOf(columnDefs)

initialPinning == PinningOf(columnDefs)

----------------------------------------------------------------------------
(* Filter -> sort -> paginate pipeline *)

\* row[field]; a field the row does not carry reads as undefined
CellValue(row, field) ==
    IF field = "id" THEN Num(row.id)
    ELSE IF field \in {"name", "price"} THEN row[field]
    ELSE Null

\* PassesFilter comparing the text with the filter text as typed
PassesFilter_CaseSensitive(row, fv) ==
    \A field \in DOMAIN fv :
        IF fv[field] = << >> THEN TRUE
        ELSE IF IsNullish(CellValue(row, field)) THEN FALSE
        ELSE includes(toLowerCase(ToText(CellValue(row, field))), fv[field])

PassesFilter(row, fv) ==
    \A field \in DOMAIN fv :
        IF fv[field] = << >> THEN TRUE
        ELSE IF IsNullish(CellValue(row, field)) THEN FALSE
        ELSE includes(toLowerCase(ToText(CellValue(row, field))),
                      toLowerCase(fv[field]))

FilterRows(rows, fv) == SelectSeq(rows, LAMBDA row : PassesFilter(row, fv))

\* Compare with a null test that ignores the direction
Compare_NullsAlwaysFirst(a, b, key, direction) ==
    LET aValue == CellValue(a, key)
        bValue == CellValue(b, key)
        asc == direction = "ascending"
    IN  IF IsNullish(aValue) THEN -1
        ELSE IF IsNullish(bValue) THEN 1
        ELSE IF aValue.t = "str" /\ bValue.t = "str"
        THEN IF IsValidDate(aValue.s) /\ IsValidDate(bValue.s)
             THEN IF asc THEN DateTime(aValue.s) - DateTime(bValue.s)
                  ELSE DateTime(bValue.s) - DateTime(aValue.s)
             ELSE IF asc THEN localeCompare(aValue.s, bValue.s)
                  ELSE localeCompare(bValue.s, aValue.s)
        ELSE IF aValue.t = "num" /\ bValue.t = "num"
        THEN IF asc THEN aValue.n - bValue.n ELSE bValue.n - aValue.n
        ELSE IF asc THEN localeCompare(ToText(aValue), ToText(bValue))
             ELSE localeCompare(ToText(bValue), ToText(aValue))

\* the comparator handed to Array.prototype.sort (values are null, strings
\* or numbers here, so the instanceof Date branch is never taken)
Compare(a, b, key, direction) ==
    LET aValue == CellValue(a, key)
        bValue == CellValue(b, key)
        asc == direction = "ascending"
    IN  IF IsNullish(aValue) THEN (IF asc THEN -1 ELSE 1)
        ELSE IF IsNullish(bValue) THEN (IF asc THEN 1 ELSE -1)
        ELSE IF aValue.t = "str" /\ bValue.t = "str"
        THEN IF IsValidDate(aValue.s) /\ IsValidDate(bValue.s)
             THEN IF asc THEN DateTime(aValue.s) - DateTime(bValue.s)
                  ELSE DateTime(bValue.s) - DateTime(aValue.s)
             ELSE IF asc THEN localeCompare(aValue.s, bValue.s)
                  ELSE localeCompare(bValue.s, aValue.s)
        ELSE IF aValue.t = "num" /\ bValue.t = "num"
        THEN IF asc THEN aValue.n - bValue.n ELSE bValue.n - aValue.n
        ELSE IF asc THEN localeCompare(ToText(aValue), ToText(bValue))
             ELSE localeCompare(ToText(bValue), ToText(aValue))

\* Array.prototype.sort: an insertion sort, stable wherever the comparator is
\* consistent.  The comparator answers "a first" for two nullish values
\* whichever comes first, so the order it leaves them in depends on the
\* argument order the platform calls it with: eng is that choice.
Engines == {"prev-next", "next-prev"}

MovesBefore(x, e, key, direction, eng) ==
    IF eng = "prev-next" THEN Compare(e, x, key, direction) > 0
    ELSE Compare(x, e, key, direction) < 0

RECURSIVE InsertPos(_, _, _, _, _, _)
InsertPos(acc, x, k, key, direction, eng) ==
    IF k = 0 THEN 0
    ELSE IF MovesBefore(x, acc[k], key, direction, eng)
    THEN InsertPos(acc, x, k - 1, key, direction, eng)
    ELSE k

RECURSIVE SortPrefix(_, _, _, _, _)
SortPrefix(rows, n, key, direction, eng) ==
    IF n = 0 THEN << >>
    ELSE LET acc == SortPrefix(rows, n - 1, key, direction, eng)
             k == InsertPos(acc, rows[n], Len(acc), key, direction, eng)
         IN  SubSeq(acc, 1, k) \o << rows[n] >> \o SubSeq(acc, k + 1, Len(acc))

SortRows(rows, sc, eng) ==
    IF sc.key = "null" \/ sc.direction = "null" THEN rows
    ELSE SortPrefix(rows, Len(rows), sc.key, sc.direction, eng)

Min(a, b) == IF a < b THEN a ELSE b
Max(a, b) == IF a > b THEN a ELSE b

\* Array.prototype.slice(start, end) on a 0-based array
Slice(rows, start, end) ==
    IF start >= Len(rows) THEN << >>
    ELSE SubSeq(rows, start + 1, Min(end, Len(rows)))

\* Paginate with the page index taken as 0-based
Paginate_ZeroBased(rows, page) ==
    Slice(rows, page * rowsPerPage, page * rowsPerPage + rowsPerPage)

Paginate(rows, page) ==
    LET startIndex == (page - 1) * rowsPerPage
    IN  Slice(rows, startIndex, startIndex + rowsPerPage)

\* filteredData applying only the filters of the visible columns
filteredData_VisibleColumns ==
    FilterRows(rowData,
               [f \in {g \in DOMAIN filterValues :
                          Get(columnVisibility, g, FALSE) = TRUE}
                   |-> filterValues[f]])

filteredData == FilterRows(rowData, filterValues)
sortedData == SortRows(filteredData, sortConfig, engine)
paginatedData == Paginate(sortedData, currentPage)
\* totalPages counting a page more than the full pages
totalPages_OneMore == Len(sortedData) \div rowsPerPage + 1

\* Math.ceil(sortedData.length / rowsPerPage)
totalPages == (Len(sortedData) + rowsPerPage - 1) \div rowsPerPage

----------------------------------------------------------------------------
(* Selection tracker *)

HasId(rows, i) == \E k \in 1..Len(rows) : rows[k].id = i

\* isRowSelected comparing row objects
isRowSelected_ByReference(row) ==
    \E k \in 1..Len(selectedRows) : selectedRows[k] = row

isRowSelected(row) == HasId(selectedRows, row.id)

\* NextSelection without the test for an id already present
NextSelection_NoIdTest(prev, row, isSelected) ==
    IF isSelected THEN Append(prev, row)
    ELSE SelectSeq(prev, LAMBDA item : item.id # row.id)

\* the value the updater of handleRowSelection returns
NextSelection(prev, row, isSelected) ==
    IF isSelected
    THEN IF ~HasId(prev, row.id) THEN Append(prev, row) ELSE prev
    ELSE SelectSeq(prev, LAMBDA item : item.id # row.id)

\* SelectionNotice notifying for every row that is added
SelectionNotice_EveryRow(prev, row, isSelected) ==
    IF isSelected /\ ~HasId(prev, row.id) /\ OnRowSelectedSupplied
    THEN << row >>
    ELSE << >>

\* the onRowSelected calls the updater of handleRowSelection makes
SelectionNotice(prev, row, isSelected) ==
    IF isSelected /\ ~HasId(prev, row.id)
         /\ Len(Append(prev, row)) = 1 /\ OnRowSelectedSupplied
    THEN << Append(prev, row)[1] >>
    ELSE << >>

----------------------------------------------------------------------------
(* Observable effects of a handler *)

\* the callbacks a handler invoked, the messages it wrote with
\* console.error, and the exceptions that left it
NoCalls ==
    [onRowSelected |-> << >>, onDataChange |-> << >>,
     onColumnPinningChange |-> << >>, onColumnVisibilityChange |-> << >>,
     onAddClick |-> << >>, onEditClick |-> << >>, onDeleteClick |-> << >>,
     onRefreshClick |-> << >>,
     consoleError |-> << >>, uncaught |-> << >>]

----------------------------------------------------------------------------
(* The product API: route handlers and the database functions they call *)

\* products ever inserted
MaxProducts == 3

Users == {"userA", "userB"}

\* auth() gives no userId for a request without a signed-in user
Anonymous == "none"

ProductNames == {"p", "q"}

\* the bodies sent with POST and PUT: JSON that passes the schema, JSON that
\* fails it, and text that is not JSON
Bodies ==
    {[kind |-> "valid", tenHang |-> n] : n \in ProductNames}
        \cup {[kind |-> "invalid"], [kind |-> "malformed"]}

\* NextResponse.json(body, { status })
Json(body, status) == [status |-> status, body |-> body]

NoRequest == [method |-> "none", user |-> Anonymous, id |-> 0]

\* the table after the seed row was inserted by userB, before any request
InitialApi ==
    [table |-> [i \in {1} |-> [tenHang |-> "p", nguoiThucHien |-> "userB"]],
     nextId |-> 2,
     request |-> NoRequest,
     statements |-> << >>,
     response |-> Json([kind |-> "none"], 0)]

\* select().from(productsSchema).limit(limit).offset(offset).orderBy(id) for
\* page 1 and the default limit, which holds every row of the model
getProducts(table, userId) ==
    LET ids == SelectSeq([i \in 1..MaxProducts + 1 |-> i],
                         LAMBDA i : i \in DOMAIN table)
    IN  [products |-> [k \in 1..Len(ids) |->
                          [id |-> ids[k], tenHang |-> table[ids[k]].tenHang,
                           nguoiThucHien |-> table[ids[k]].nguoiThucHien]],
         page |-> 1,
         totalPages |-> (Cardinality(DOMAIN table) + 9) \div 10]

\* select().from(productsSchema).where(eq(id)): the row, or nothing; the
\* user id is not part of the query
getProductById(table, id, userId) ==
    IF id \in DOMAIN table
    THEN << [id |-> id, tenHang |-> table[id].tenHang,
             nguoiThucHien |-> table[id].nguoiThucHien] >>
    ELSE << >>

createProduct(table, id, productData, userId) ==
    [i \in (DOMAIN table) \cup {id} |->
        IF i = id
        THEN [tenHang |-> productData.tenHang, nguoiThucHien |-> userId]
        ELSE table[i]]

\* update().set({...productData, nguoiThucHien: userId}).where(eq(id))
updateProduct(table, id, productData, userId) ==
    [i \in DOMAIN table |->
        IF i = id
        THEN [tenHang |-> productData.tenHang, nguoiThucHien |-> userId]
        ELSE table[i]]

\* delete(productsSchema).where(eq(id))
deleteProduct(table, id, userId) ==
    [i \in (DOMAIN table) \ {id} |-> table[i]]

Unauthorized == Json([error |-> "Unauthorized"], 401)
NotFound == Json([error |-> "Product not found"], 404)
ServerError == Json([error |-> "Internal server error"], 500)
ValidationError == Json([error |-> "Validation error"], 400)

\* one request handled: the table after it, the statements sent to the
\* database, the response
Handled(method, user, id, table, nextId, statements, response) ==
    /\ api' = [table |-> table, nextId |-> nextId,
               request |-> [method |-> method, user |-> user, id |-> id],
               statements |-> statements, response |-> response]
    /\ UNCHANGED gridVars

\* GET /api/products; dbUp is false when the database call throws
ProductsGET(user, dbUp) ==
    IF user = Anonymous
    THEN Handled("GET", user, 0, api.table, api.nextId, << >>, Unauthorized)
    ELSE IF ~dbUp
    THEN Handled("GET", user, 0, api.table, api.nextId, << "select" >>,
                 ServerError)
    ELSE Handled("GET", user, 0, api.table, api.nextId,
                 << "select", "count" >>,
                 Json(getProducts(api.table, user), 200))

\* POST /api/products
ProductsPOST(user, body, dbUp) ==
    /\ api.nextId <= MaxProducts
    /\ IF user = Anonymous
       THEN Handled("POST", user, 0, api.table, api.nextId, << >>,
                    Unauthorized)
       ELSE IF body.kind = "malformed"
       THEN Handled("POST", user, 0, api.table, api.nextId, << >>,
                    ServerError)
       ELSE IF body.kind = "invalid"
       THEN Handled("POST", user, 0, api.table, api.nextId, << >>,
                    ValidationError)
       ELSE IF ~dbUp
       THEN Handled("POST", user, 0, api.table, api.nextId, << "insert" >>,
                    ServerError)
       ELSE Handled("POST", user, 0,
                    createProduct(api.table, api.nextId, body, user),
                    api.nextId + 1, << "insert" >>,
                    Json([id |-> api.nextId, tenHang |-> body.tenHang,
                          nguoiThucHien |-> user], 201))

\* GET /api/products/[id]
ProductGET(user, id, dbUp) ==
    IF user = Anonymous
    THEN Handled("GET", user, id, api.table, api.nextId, << >>, Unauthorized)
    ELSE IF ~dbUp
    THEN Handled("GET", user, id, api.table, api.nextId, << "select" >>,
                 ServerError)
    ELSE IF getProductById(api.table, id, user) = << >>
    THEN Handled("GET", user, id, api.table, api.nextId, << "select" >>,
                 NotFound)
    ELSE Handled("GET", user, id, api.table, api.nextId, << "select" >>,
                 Json(getProductById(api.table, id, user)[1], 200))

\* PUT /api/products/[id]
ProductPUT(user, id, body, dbUp) ==
    IF user = Anonymous
    THEN Handled("PUT", user, id, api.table, api.nextId, << >>, Unauthorized)
    ELSE IF body.kind = "malformed"
    THEN Handled("PUT", user, id, api.table, api.nextId, << >>, ServerError)
    ELSE IF body.kind = "invalid"
    THEN Handled("PUT", user, id, api.table, api.nextId, << >>,
                 ValidationError)
    ELSE IF ~dbUp
    THEN Handled("PUT", user, id, api.table, api.nextId, << "select" >>,
                 ServerError)
    ELSE IF getProductById(api.table, id, user) = << >>
    THEN Handled("PUT", user, id, api.table, api.nextId, << "select" >>,
                 NotFound)
    ELSE Handled("PUT", user, id,
                 updateProduct(api.table, id, body, user), api.nextId,
                 << "select", "update" >>,
                 Json([id |-> id, tenHang |-> body.tenHang,
                       nguoiThucHien |-> user], 200))

\* ProductDELETE looking the product up before it asks who the user is
ProductDELETE_LookupFirst(user, id, dbUp) ==
    IF ~dbUp
    THEN Handled("DELETE", user, id, api.table, api.nextId, << "select" >>,
                 ServerError)
    ELSE IF getProductById(api.table, id, user) = << >>
    THEN Handled("DELETE", user, id, api.table, api.nextId, << "select" >>,
                 NotFound)
    ELSE IF user = Anonymous
    THEN Handled("DELETE", user, id, api.table, api.nextId, << "select" >>,
                 Unauthorized)
    ELSE Handled("DELETE", user, id, deleteProduct(api.table, id, user),
                 api.nextId, << "select", "delete" >>,
                 Json([success |-> TRUE], 200))

\* DELETE /api/products/[id]
ProductDELETE(user, id, dbUp) ==
    IF user = Anonymous
    THEN Handled("DELETE", user, id, api.table, api.nextId, << >>,
                 Unauthorized)
    ELSE IF ~dbUp
    THEN Handled("DELETE", user, id, api.table, api.nextId, << "select" >>,
                 ServerError)
    ELSE IF getProductById(api.table, id, user) = << >>
    THEN Handled("DELETE", user, id, api.table, api.nextId, << "select" >>,
                 NotFound)
    ELSE Handled("DELETE", user, id, deleteProduct(api.table, id, user),
                 api.nextId, << "select", "delete" >>,
                 Json([success |-> TRUE], 200))

----------------------------------------------------------------------------
(* Initial state: the component mounted with initialData = DataA, after the
   mount effects have run *)

Init ==
    /\ initialData = DataA
    /\ rowData = DataA
    /\ selectedRows = << >>
    /\ sortConfig = [key |-> "null", direction |-> "null"]
    /\ filterValues = << >>
    /\ currentPage = 1
    /\ columnVisibility = initialVisibility
    /\ columnPinning = initialPinning
    /\ columnWidths = initialWidths
    /\ pendingReads = {}
    /\ engine = "prev-next"
    /\ emitted = NoCalls
    /\ headerInput = "none"
    /\ props = DefaultProps
    /\ downloads = << >>
    /\ api = InitialApi

----------------------------------------------------------------------------
(* Spreadsheet export, and the exported files as workbooks to import *)

\* the fields of the columns with columnVisibility[col.field] truthy, in
\* declaration order
VisibleFields(visibility) ==
    SelectSeq(ColumnFields, LAMBDA f : Get(visibility, f, FALSE) = TRUE)

\* ExportRows taking the rows of the rendered page
ExportRows_Page == paginatedData

\* the rows handleExportExcel maps over
ExportRows == filteredData

\* exportData: one object per row, with row[col.field] under every visible
\* field
ExportData ==
    [k \in 1..Len(ExportRows) |->
        [f \in {VisibleFields(columnVisibility)[i] :
                   i \in 1..Len(VisibleFields(columnVisibility))} |->
            CellValue(ExportRows[k], f)]]

\* XLSX.utils.json_to_sheet: the header is the keys of the objects in the
\* order met, and a sheet row has a cell for every key whose value is
\* neither null nor undefined; numbers become numeric cells and strings
\* text cells
JsonToSheet(objects, keys) ==
    [header |-> IF Len(objects) = 0 THEN << >> ELSE keys,
     rows |-> [k \in 1..Len(objects) |->
                  [f \in {g \in DOMAIN objects[k] : ~IsNullish(objects[k][g])}
                      |-> objects[k][f]]]]

\* ValueOf reading every cell as text
ValueOf_Text(cell) == Str(ToText(cell))

\* the value sheet_to_json gives for a cell: a number for a numeric cell, a
\* string for a text cell
ValueOf(cell) == cell

\* XLSX.utils.sheet_to_json: one new object per sheet row that has a cell,
\* with the header of each cell as key; a row without cells is skipped.  An
\* object without an id cell has id 0 here, which stands for undefined.
SheetToJson(sheet) ==
    LET filled == SelectSeq(sheet.rows, LAMBDA cells : DOMAIN cells # {})
    IN  [k \in 1..Len(filled) |->
            Row(IF "id" \in DOMAIN filled[k] THEN ValueOf(filled[k]["id"]).n
                ELSE 0,
                IF "name" \in DOMAIN filled[k] THEN ValueOf(filled[k]["name"])
                ELSE Null,
                IF "price" \in DOMAIN filled[k] THEN ValueOf(filled[k]["price"])
                ELSE Null,
                7)]

\* JSON.stringify of a map whose values are booleans, strings or null (the
\* maps of the grid have no undefined value): a JSON text that parses to a
\* map with the same entries
Stringify(map) == JsonText([f \in DOMAIN map |-> map[f]])

\* the name every export is written under
exportFileName == "data-export.xlsx"

\* the written files the user can choose for an import
ExportNames == IF downloads = << >> THEN {} ELSE {exportFileName}

\* handleExportExcel: writes a workbook with the sheets Data and Metadata
\* under exportFileName, in place of the file written before.  A written
\* file is [data, metadata]; its field "at" records the state it was
\* written in.
HandleExportExcel ==
    /\ UNCHANGED << initialData, rowData, selectedRows, sortConfig,
                    filterValues, currentPage, columnVisibility,
                    columnPinning, columnWidths, pendingReads, engine, props,
                    api >>
    /\ emitted' = NoCalls
    /\ headerInput' = "none"
    /\ downloads' =
          << [data |-> JsonToSheet(ExportData,
                                  VisibleFields(columnVisibility)),
              metadata |-> MetadataRows(Stringify(columnPinning),
                                        Stringify(columnVisibility)),
              at |-> [rowData |-> rowData,
                      filteredData |-> filteredData,
                      currentPage |-> currentPage,
                      columnPinning |-> columnPinning,
                      columnVisibility |-> columnVisibility]] >>

\* what XLSX.read gives for a file: a written file read back, or a file the
\* user has from elsewhere
Workbook(name) ==
    IF name \in ExportNames
    THEN TwoSheets(SheetToJson(downloads[1].data), downloads[1].metadata)
    ELSE UserWorkbook(name)

----------------------------------------------------------------------------
(* Record Store replacement *)

\* what a render of the caller passes as onEditClick / onDeleteClick: TRUE
\* for new function objects (a caller that defines the handlers in its
\* function body, as ProductsPage does), FALSE for the objects of the
\* previous render
HandlerRenders == BOOLEAN

\* SetInitialData dropping the selected rows the new array does not have
SetInitialData_Pruning(d, freshHandlers) ==
    /\ d # initialData
    /\ initialData' = d
    /\ rowData' = d
    /\ selectedRows' = SelectSeq(selectedRows, LAMBDA item : HasId(d, item.id))
    /\ columnVisibility' =
          IF freshHandlers THEN initialVisibility ELSE columnVisibility
    /\ columnWidths' = IF freshHandlers THEN initialWidths ELSE columnWidths
    /\ columnPinning' = IF freshHandlers THEN initialPinning ELSE columnPinning
    /\ emitted' = NoCalls
    /\ headerInput' = "none"
    /\ UNCHANGED << sortConfig, filterValues, currentPage,
                    pendingReads, engine, props, downloads,
                    api >>

\* the caller renders the grid with another initialData array: the effect on
\* [initialData] copies it into rowData.  columnDefs is memoized on
\* [inputColumnDefs, onEditClick, onDeleteClick, _defaultColDef]: with new
\* handler objects it is a new array, and the effect on [columnDefs] sets
\* the three presentation maps to their initial values again.
SetInitialData(d, freshHandlers) ==
    /\ d # initialData
    /\ initialData' = d
    /\ rowData' = d
    /\ columnVisibility' =
          IF freshHandlers THEN initialVisibility ELSE columnVisibility
    /\ columnWidths' = IF freshHandlers THEN initialWidths ELSE columnWidths
    /\ columnPinning' = IF freshHandlers THEN initialPinning ELSE columnPinning
    /\ emitted' = NoCalls
    /\ headerInput' = "none"
    /\ UNCHANGED << selectedRows, sortConfig, filterValues, currentPage,
                    pendingReads, engine, props, downloads,
                    api >>

\* handleImportExcel: starts the file read and returns
HandleImportExcel(file) ==
    /\ file \notin pendingReads
    /\ pendingReads' = pendingReads \cup {file}
    /\ emitted' = NoCalls
    /\ headerInput' = "none"
    /\ UNCHANGED << initialData, rowData, selectedRows, sortConfig,
                    filterValues, currentPage, columnVisibility,
                    columnPinning, columnWidths, engine, props, downloads,
                    api >>

\* metadataJson.find(item => item.key === k): a one-element sequence with the
\* first such item, or the empty sequence
FindKey(items, k) ==
    LET hits == SelectSeq(items, LAMBDA item : Get(item, "key", "") = k)
    IN  IF hits = << >> THEN << >> ELSE << Head(hits) >>

\* the setting is present and its value is truthy
HasValue(setting) ==
    /\ setting # << >>
    /\ "value" \in DOMAIN setting[1]
    /\ setting[1].value.text # "empty"

\* the setting is present, its value is truthy and JSON.parse accepts it
Parses(setting) ==
    /\ HasValue(setting)
    /\ setting[1].value.text = "json"

\* how far the try block of reader.onload gets before the data sheet is
\* read: XLSX.read throws, SheetNames[0] is undefined, Sheets[sheetName] is
\* undefined, or the first sheet is read
ImportOutcome(workbook) ==
    IF ~workbook.readable THEN "threw"
    ELSE IF Len(workbook.SheetNames) = 0 THEN "no-sheet"
    ELSE IF workbook.SheetNames[1] \notin DOMAIN workbook.Sheets
    THEN "no-worksheet"
    ELSE "read"

\* sheet_to_json of the first sheet
FirstSheetRows(workbook) == workbook.Sheets[workbook.SheetNames[1]]

\* the Metadata sheet as key/value rows; no rows when the workbook has no
\* sheet of that name
MetadataJson(workbook) ==
    IF /\ \E i \in 1..Len(workbook.SheetNames) :
              workbook.SheetNames[i] = "Metadata"
       /\ "Metadata" \in DOMAIN workbook.Sheets
    THEN workbook.Sheets["Metadata"]
    ELSE << >>

\* the setting of key k that the import applies: a one-element sequence with
\* the parsed map, or the empty sequence
RestoredSetting(workbook, k) ==
    IF ImportOutcome(workbook) = "read"
         /\ Parses(FindKey(MetadataJson(workbook), k))
    THEN << FindKey(MetadataJson(workbook), k)[1].value.val >>
    ELSE << >>

\* the setting of key k has a value that JSON.parse throws on
SettingFails(workbook, k) ==
    /\ ImportOutcome(workbook) = "read"
    /\ HasValue(FindKey(MetadataJson(workbook), k))
    /\ ~Parses(FindKey(MetadataJson(workbook), k))

\* PinningAfterImport falling back to the initial map on a parse error
PinningAfterImport_ResetOnError(prev, workbook) ==
    IF RestoredSetting(workbook, "columnPinning") # << >>
    THEN RestoredSetting(workbook, "columnPinning")[1]
    ELSE IF SettingFails(workbook, "columnPinning") THEN initialPinning
    ELSE prev

\* columnPinning after reader.onload
PinningAfterImport(prev, workbook) ==
    IF RestoredSetting(workbook, "columnPinning") # << >>
    THEN RestoredSetting(workbook, "columnPinning")[1]
    ELSE prev

\* columnVisibility after reader.onload
VisibilityAfterImport(prev, workbook) ==
    IF RestoredSetting(workbook, "columnVisibility") # << >>
    THEN RestoredSetting(workbook, "columnVisibility")[1]
    ELSE prev

\* the rows reader.onload hands to setRowData and onDataChange: a
\* one-element sequence with the rows, or the empty sequence
RowsToStore(workbook) ==
    IF ImportOutcome(workbook) = "read" /\ Len(FirstSheetRows(workbook)) > 0
    THEN << FirstSheetRows(workbook) >>
    ELSE << >>

\* RowsAfterImport emptying the store when the first sheet is not read
RowsAfterImport_ClearOnFailure(prev, workbook) ==
    IF RowsToStore(workbook) # << >> THEN RowsToStore(workbook)[1]
    ELSE IF ImportOutcome(workbook) # "read" THEN << >>
    ELSE prev

\* rowData after reader.onload
RowsAfterImport(prev, workbook) ==
    IF RowsToStore(workbook) # << >> THEN RowsToStore(workbook)[1] ELSE prev

\* the console.error messages of reader.onload, in order
ImportErrors(workbook) ==
    CASE ImportOutcome(workbook) = "threw" ->
           << "Error importing Excel file:" >>
      [] ImportOutcome(workbook) = "no-sheet" ->
           << "No sheet found in Excel file" >>
      [] ImportOutcome(workbook) = "no-worksheet" ->
           << "Worksheet not found in Excel file" >>
      [] OTHER ->
           (IF SettingFails(workbook, "columnPinning")
            THEN << "Error parsing column pinning settings:" >> ELSE << >>)
           \o (IF SettingFails(workbook, "columnVisibility")
               THEN << "Error parsing column visibility settings:" >>
               ELSE << >>)

\* ReaderOnLoad keeping the rows of the store when another read is pending
ReaderOnLoad_FirstWins(file) ==
    /\ file \in pendingReads
    /\ pendingReads' = pendingReads \ {file}
    /\ headerInput' = "none"
    /\ columnPinning' = PinningAfterImport(columnPinning, Workbook(file))
    /\ columnVisibility' = VisibilityAfterImport(columnVisibility, Workbook(file))
    /\ rowData' = IF pendingReads # {file} THEN rowData
                  ELSE RowsAfterImport(rowData, Workbook(file))
    /\ emitted' =
          [NoCalls EXCEPT
             !.onColumnPinningChange =
                 IF OnColumnPinningChangeSupplied
                 THEN RestoredSetting(Workbook(file), "columnPinning")
                 ELSE << >>,
             !.onColumnVisibilityChange =
                 IF OnColumnVisibilityChangeSupplied
                 THEN RestoredSetting(Workbook(file), "columnVisibility")
                 ELSE << >>,
             !.onDataChange =
                 IF OnDataChangeSupplied THEN RowsToStore(Workbook(file))
                 ELSE << >>,
             !.consoleError = ImportErrors(Workbook(file))]
    /\ UNCHANGED << initialData, selectedRows, sortConfig, filterValues,
                    currentPage, columnWidths, engine, props, downloads,
                    api >>

\* reader.onload: parse the workbook, restore the metadata, replace the rows;
\* the whole body is inside try/catch, so nothing it throws leaves it
ReaderOnLoad(file) ==
    /\ file \in pendingReads
    /\ pendingReads' = pendingReads \ {file}
    /\ headerInput' = "none"
    /\ columnPinning' = PinningAfterImport(columnPinning, Workbook(file))
    /\ columnVisibility' = VisibilityAfterImport(columnVisibility, Workbook(file))
    /\ rowData' = RowsAfterImport(rowData, Workbook(file))
    /\ emitted' =
          [NoCalls EXCEPT
             !.onColumnPinningChange =
                 IF OnColumnPinningChangeSupplied
                 THEN RestoredSetting(Workbook(file), "columnPinning")
                 ELSE << >>,
             !.onColumnVisibilityChange =
                 IF OnColumnVisibilityChangeSupplied
                 THEN RestoredSetting(Workbook(file), "columnVisibility")
                 ELSE << >>,
             !.onDataChange =
                 IF OnDataChangeSupplied THEN RowsToStore(Workbook(file))
                 ELSE << >>,
             !.consoleError = ImportErrors(Workbook(file))]
    /\ UNCHANGED << initialData, selectedRows, sortConfig, filterValues,
                    currentPage, columnWidths, engine, props, downloads,
                    api >>

----------------------------------------------------------------------------
(* Row selection *)

\* the rows of the rendered page the user reaches
ClickableRows ==
    {paginatedData[i] : i \in 1..Min(MaxRowIndex, Len(paginatedData))}

MayGrow(row, isSelected) ==
    (isSelected /\ ~isRowSelected(row)) => Len(selectedRows) < MaxSelected

\* the row checkbox: onCheckedChange(checked) calls handleRowSelection
RowCheckbox(row, checked) ==
    /\ MayGrow(row, checked)
    /\ selectedRows' = NextSelection(selectedRows, row, checked)
    /\ emitted' = [NoCalls EXCEPT
                     !.onRowSelected = SelectionNotice(selectedRows, row, checked)]
    /\ headerInput' = "none"
    /\ UNCHANGED << initialData, rowData, sortConfig, filterValues,
                    currentPage, columnVisibility, columnPinning,
                    columnWidths, pendingReads, engine, props, downloads,
                    api >>

\* handleRowClick: toggles the row
HandleRowClick(row) ==
    LET isSelected == isRowSelected(row)
    IN  /\ MayGrow(row, ~isSelected)
        /\ selectedRows' = NextSelection(selectedRows, row, ~isSelected)
        /\ emitted' = [NoCalls EXCEPT
                         !.onRowSelected =
                             SelectionNotice(selectedRows, row, ~isSelected)]
        /\ headerInput' = "none"
        /\ UNCHANGED << initialData, rowData, sortConfig, filterValues,
                        currentPage, columnVisibility, columnPinning,
                        columnWidths, pendingReads, engine, props, downloads,
                    api >>

\* SelectAllRows taking every row of the filtered view
SelectAllRows_Filtered == sortedData

\* the rows the header checkbox selects when it is checked
SelectAllRows == paginatedData

\* the header checkbox (left or center section): onCheckedChange(checked)
HeaderCheckbox(checked) ==
    /\ selectedRows' = IF checked THEN SelectAllRows ELSE << >>
    /\ emitted' =
          [NoCalls EXCEPT
             !.onRowSelected =
                 IF checked /\ Len(paginatedData) = 1 /\ OnRowSelectedSupplied
                 THEN << paginatedData[1] >> ELSE << >>]
    /\ headerInput' = IF checked THEN "checked" ELSE "unchecked"
    /\ UNCHANGED << initialData, rowData, sortConfig, filterValues,
                    currentPage, columnVisibility, columnPinning,
                    columnWidths, pendingReads, engine, props, downloads,
                    api >>

----------------------------------------------------------------------------
(* Sorting, filtering, paging *)

\* renderHeaders renders a header only for a column whose visibility is true
HeaderRendered(f) == f \in DOMAIN columnVisibility /\ columnVisibility[f] = TRUE

SortableFields ==
    {f \in Fields : Get(ColumnOf(f), "sortable", FALSE) = TRUE}

FilterableFields ==
    {f \in Fields : Get(ColumnOf(f), "filter", FALSE) = TRUE}

\* NextSortConfig toggling between the two directions
NextSortConfig_Toggle(prev, key) ==
    IF prev.key = key /\ prev.direction = "ascending"
    THEN [key |-> key, direction |-> "descending"]
    ELSE [key |-> key, direction |-> "ascending"]

\* the value the updater of requestSort returns
NextSortConfig(prev, key) ==
    IF prev.key = key
    THEN IF prev.direction = "ascending"
         THEN [key |-> key, direction |-> "descending"]
         ELSE IF prev.direction = "descending"
         THEN [key |-> "null", direction |-> "null"]
         ELSE [key |-> key, direction |-> "ascending"]
    ELSE [key |-> key, direction |-> "ascending"]

RequestSort(key) ==
    /\ HeaderRendered(key)
    /\ sortConfig' = NextSortConfig(sortConfig, key)
    /\ emitted' = NoCalls
    /\ headerInput' = "none"
    /\ UNCHANGED << initialData, rowData, selectedRows, filterValues,
                    currentPage, columnVisibility, columnPinning,
                    columnWidths, pendingReads, engine, props, downloads,
                    api >>

\* the texts the user types into a filter box
FilterTexts == { << >>, << "A" >>, << "1" >> }

\* HandleFilterChange without the page reset
HandleFilterChange_KeepPage(field, value) ==
    /\ HeaderRendered(field)
    /\ value # Get(filterValues, field, << >>)
    /\ filterValues' =
          [f \in (DOMAIN filterValues) \cup {field} |->
              IF f = field THEN value ELSE filterValues[f]]
    /\ emitted' = NoCalls
    /\ headerInput' = "none"
    /\ UNCHANGED << initialData, rowData, selectedRows, sortConfig,
                    currentPage, columnVisibility, columnPinning,
                    columnWidths, pendingReads, engine, props, downloads,
                    api >>

\* the filter box shows filterValues[field] || ''; onChange fires when the
\* typed text differs from it
HandleFilterChange(field, value) ==
    /\ HeaderRendered(field)
    /\ value # Get(filterValues, field, << >>)
    /\ filterValues' =
          [f \in (DOMAIN filterValues) \cup {field} |->
              IF f = field THEN value ELSE filterValues[f]]
    /\ currentPage' = 1
    /\ emitted' = NoCalls
    /\ headerInput' = "none"
    /\ UNCHANGED << initialData, rowData, selectedRows, sortConfig,
                    columnVisibility, columnPinning, columnWidths,
                    pendingReads, engine, props, downloads,
                    api >>

\* the pagination bar is rendered when totalPages > 1
PreviousPage ==
    /\ totalPages > 1
    /\ currentPage # 1
    /\ currentPage' = Max(currentPage - 1, 1)
    /\ emitted' = NoCalls
    /\ headerInput' = "none"
    /\ UNCHANGED << initialData, rowData, selectedRows, sortConfig,
                    filterValues, columnVisibility, columnPinning,
                    columnWidths, pendingReads, engine, props, downloads,
                    api >>

NextPage ==
    /\ totalPages > 1
    /\ currentPage # totalPages
    /\ currentPage' = Min(currentPage + 1, totalPages)
    /\ emitted' = NoCalls
    /\ headerInput' = "none"
    /\ UNCHANGED << initialData, rowData, selectedRows, sortConfig,
                    filterValues, columnVisibility, columnPinning,
                    columnWidths, pendingReads, engine, props, downloads,
                    api >>

\* the number on the i-th page button (i from 0)
PageNumber(i) ==
    IF totalPages <= 5 THEN i + 1
    ELSE IF currentPage <= 3 THEN i + 1
    ELSE IF currentPage >= totalPages - 2 THEN totalPages - 4 + i
    ELSE currentPage - 2 + i

GoToPage(i) ==
    /\ totalPages > 1
    /\ i < Min(5, totalPages)
    /\ currentPage' = PageNumber(i)
    /\ emitted' = NoCalls
    /\ headerInput' = "none"
    /\ UNCHANGED << initialData, rowData, selectedRows, sortConfig,
                    filterValues, columnVisibility, columnPinning,
                    columnWidths, pendingReads, engine, props, downloads,
                    api >>

----------------------------------------------------------------------------
(* Presentation state: pinning, visibility, widths *)

\* columnPinning[field]: undefined for a field the map has no entry for
PinnedStatus(pinning, f) == Get(pinning, f, "undefined")

\* GroupColumns with a center list of the columns whose status is null
GroupColumns_NullOnly(pinning) ==
    [leftPinned |->
        SelectSeq(ColumnFields, LAMBDA f : PinnedStatus(pinning, f) = "left"),
     center |->
        SelectSeq(ColumnFields, LAMBDA f : PinnedStatus(pinning, f) = "null"),
     rightPinned |->
        SelectSeq(ColumnFields, LAMBDA f : PinnedStatus(pinning, f) = "right")]

\* the three lists groupedColumns computes, each column given by its field
GroupColumns(pinning) ==
    [leftPinned |->
        SelectSeq(ColumnFields, LAMBDA f : PinnedStatus(pinning, f) = "left"),
     center |->
        SelectSeq(ColumnFields,
                  LAMBDA f : PinnedStatus(pinning, f) \notin {"left", "right"}),
     rightPinned |->
        SelectSeq(ColumnFields, LAMBDA f : PinnedStatus(pinning, f) = "right")]

groupedColumns == GroupColumns(columnPinning)

\* the checked prop of the header checkbox, in the left and the center section
HeaderCheckboxChecked ==
    Len(selectedRows) > 0 /\ Len(selectedRows) = Len(paginatedData)

\* the three sections of the grid body: whether the section is rendered,
\* whether it has the checkbox column (header checkbox and row checkboxes),
\* and the rows its body maps over
LeftSection ==
    [rendered |-> Len(groupedColumns.leftPinned) > 0,
     checkbox |-> Len(groupedColumns.leftPinned) > 0,
     rows |-> paginatedData]

\* CenterSection with the checkbox column in every state
CenterSection_AlwaysCheckbox ==
    [rendered |-> TRUE, checkbox |-> TRUE, rows |-> paginatedData]

CenterSection ==
    [rendered |-> TRUE,
     checkbox |-> Len(groupedColumns.leftPinned) = 0,
     rows |-> paginatedData]

RightSection ==
    [rendered |-> Len(groupedColumns.rightPinned) > 0,
     checkbox |-> FALSE,
     rows |-> paginatedData]

\* NextPinning keeping only the entry that changes
NextPinning_Delta(prev, field, position) ==
    [f \in {field} |-> position]

\* the value the updater of pinColumn returns: { ...prev, [field]: position }
NextPinning(prev, field, position) ==
    [f \in (DOMAIN prev) \cup {field} |->
        IF f = field THEN position ELSE prev[f]]

Positions == {"left", "right", "null"}

\* pinColumn, called from the pin menu of a rendered header; the Unpin item
\* is disabled while columnPinning[field] === null
PinColumn(field, position) ==
    /\ HeaderRendered(field)
    /\ position = "null" => PinnedStatus(columnPinning, field) # "null"
    /\ columnPinning' = NextPinning(columnPinning, field, position)
    /\ emitted' =
          [NoCalls EXCEPT
             !.onColumnPinningChange =
                 IF OnColumnPinningChangeSupplied
                 THEN << NextPinning(columnPinning, field, position) >>
                 ELSE << >>]
    /\ headerInput' = "none"
    /\ UNCHANGED << initialData, rowData, selectedRows, sortConfig,
                    filterValues, currentPage, columnVisibility,
                    columnWidths, pendingReads, engine, props, downloads,
                    api >>

\* the columns the Columns menu of the toolbar lists
ToggleableFields ==
    {f \in Fields : "headerName" \in DOMAIN ColumnOf(f)}

\* NextVisibility keeping only the entry that changes
NextVisibility_OnlyEntry(prev, colId) ==
    [f \in {colId} |-> ~(Get(prev, colId, FALSE) = TRUE)]

\* the value the updater of toggleColumnVisibility returns:
\* { ...prev, [colId]: !prev[colId] }
NextVisibility(prev, colId) ==
    [f \in (DOMAIN prev) \cup {colId} |->
        IF f = colId THEN ~(Get(prev, colId, FALSE) = TRUE) ELSE prev[f]]

ToggleColumnVisibility(colId) ==
    /\ columnVisibility' = NextVisibility(columnVisibility, colId)
    /\ emitted' =
          [NoCalls EXCEPT
             !.onColumnVisibilityChange =
                 IF OnColumnVisibilityChangeSupplied
                 THEN << NextVisibility(columnVisibility, colId) >>
                 ELSE << >>]
    /\ headerInput' = "none"
    /\ UNCHANGED << initialData, rowData, selectedRows, sortConfig,
                    filterValues, currentPage, columnPinning,
                    columnWidths, pendingReads, engine, props, downloads,
                    api >>

\* columns whose header shows a resize handle
ResizableFields ==
    {f \in Fields : Get(ColumnOf(f), "resizable", TRUE) # FALSE}

\* widest column the user drags a handle to
MaxWidth == 180

\* NextWidth without the floor
NextWidth_NoFloor(prev, field, deltaX) ==
    (IF Get(prev, field, 0) # 0 THEN prev[field] ELSE 150) + deltaX

\* the width the updater of handleColumnResize computes
NextWidth(prev, field, deltaX) ==
    LET currentWidth == IF Get(prev, field, 0) # 0 THEN prev[field] ELSE 150
    IN  Max(100, currentWidth + deltaX)

HandleColumnResize(field, deltaX) ==
    /\ HeaderRendered(field)
    /\ NextWidth(columnWidths, field, deltaX) <= MaxWidth
    /\ columnWidths' =
          [f \in (DOMAIN columnWidths) \cup {field} |->
              IF f = field THEN NextWidth(columnWidths, field, deltaX)
              ELSE columnWidths[f]]
    /\ emitted' = NoCalls
    /\ headerInput' = "none"
    /\ UNCHANGED << initialData, rowData, selectedRows, sortConfig,
                    filterValues, currentPage, columnVisibility,
                    columnPinning, pendingReads, engine, props, downloads,
                    api >>

----------------------------------------------------------------------------

\* what the user sorts and filters by while working with the selection
UserSortKeys == {"price"}
UserFilterFields == {"name"}
UserFilterTexts == { << >>, << "A" >> }
\* the file the user imports while working with the selection
UserFiles == {"full"}

Next ==
    \/ \E d \in DataSets, freshHandlers \in HandlerRenders :
           SetInitialData(d, freshHandlers)
    \/ \E file \in UserFiles :
           Cardinality(pendingReads) < MaxPending /\ HandleImportExcel(file)
    \/ \E file \in UserFiles : ReaderOnLoad(file)
    \/ \E row \in ClickableRows, checked \in BOOLEAN : RowCheckbox(row, checked)
    \/ \E row \in ClickableRows : HandleRowClick(row)
    \/ \E checked \in BOOLEAN : HeaderCheckbox(checked)
    \/ \E key \in SortableFields \cap UserSortKeys : RequestSort(key)
    \/ \E field \in FilterableFields \cap UserFilterFields,
          value \in UserFilterTexts : HandleFilterChange(field, value)
    \/ PreviousPage
    \/ NextPage
    \/ \E i \in 0..4 : GoToPage(i)

Spec == Init /\ [][Next]_vars

----------------------------------------------------------------------------
(* The pipeline on enumerated inputs: the grid is mounted with any row
   sequence of up to MaxRows rows (ids 1, 2, ... and cells drawn from
   CellPool), with DataB or with DataC, under either sort engine, and the user sorts,
   filters and pages *)

CellPool ==
    << [name |-> Str(<< "A", "b" >>), price |-> Num(100)],
       [name |-> Str(<< "B" >>), price |-> Null],
       [name |-> Null, price |-> Num(30)],
       [name |-> Str(<< "a" >>), price |-> Null] >>

RowsOf(picks) ==
    [i \in 1..Len(picks) |->
        Row(i, CellPool[picks[i]].name, CellPool[picks[i]].price, 1)]

PipelineInputs ==
    {RowsOf(picks) :
        picks \in UNION {[1..n -> 1..Len(CellPool)] : n \in 0..MaxRows}}
      \cup {DataB, DataC}

InitPipeline ==
    /\ initialData \in PipelineInputs
    /\ rowData = initialData
    /\ selectedRows = << >>
    /\ sortConfig = [key |-> "null", direction |-> "null"]
    /\ filterValues = << >>
    /\ currentPage = 1
    /\ columnVisibility = initialVisibility
    /\ columnPinning = initialPinning
    /\ columnWidths = initialWidths
    /\ pendingReads = {}
    /\ engine \in Engines
    /\ emitted = NoCalls
    /\ headerInput = "none"
    /\ props = DefaultProps
    /\ downloads = << >>
    /\ api = InitialApi

NextPipeline ==
    \/ \E key \in SortableFields : RequestSort(key)
    \/ \E field \in FilterableFields, value \in FilterTexts :
           HandleFilterChange(field, value)
    \/ PreviousPage
    \/ NextPage
    \/ \E i \in 0..4 : GoToPage(i)

SpecPipeline == InitPipeline /\ [][NextPipeline]_vars

----------------------------------------------------------------------------
(* Pagination on every number of rows: the grid is mounted with the first n
   rows of DataD, for every n up to MaxRecords, and the user filters and
   pages *)

PagingInputs == {SubSeq(DataD, 1, n) : n \in 0..MaxRecords}

InitPaging ==
    /\ initialData \in PagingInputs
    /\ rowData = initialData
    /\ selectedRows = << >>
    /\ sortConfig = [key |-> "null", direction |-> "null"]
    /\ filterValues = << >>
    /\ currentPage = 1
    /\ columnVisibility = initialVisibility
    /\ columnPinning = initialPinning
    /\ columnWidths = initialWidths
    /\ pendingReads = {}
    /\ engine = "prev-next"
    /\ emitted = NoCalls
    /\ headerInput = "none"
    /\ props = DefaultProps
    /\ downloads = << >>
    /\ api = InitialApi

NextPaging ==
    \/ \E field \in FilterableFields \cap UserFilterFields,
          value \in UserFilterTexts : HandleFilterChange(field, value)
    \/ PreviousPage
    \/ NextPage
    \/ \E i \in 0..4 : GoToPage(i)

SpecPaging == InitPaging /\ [][NextPaging]_vars

----------------------------------------------------------------------------
(* The presentation state under every kind of operation: the grid is mounted
   with DataA, the user pins, hides and resizes columns, and between these
   the caller replaces the data and the user imports a workbook with a
   Metadata sheet, sorts, filters and pages *)

\* the columns the user pins, hides and resizes, and the distances dragged
UserPinFields == {"id", "price"}
UserToggleFields == {"name"}
UserResizeFields == {"price"}
ResizeDeltas == {-60, 60}

NextPresentation ==
    \/ \E field \in Fields \cap UserPinFields, position \in Positions :
           PinColumn(field, position)
    \/ \E colId \in ToggleableFields \cap UserToggleFields :
           ToggleColumnVisibility(colId)
    \/ \E field \in ResizableFields \cap UserResizeFields,
          deltaX \in ResizeDeltas : HandleColumnResize(field, deltaX)
    \/ \E d \in DataSets, freshHandlers \in HandlerRenders :
           SetInitialData(d, freshHandlers)
    \/ \E file \in UserFiles :
           Cardinality(pendingReads) < MaxPending /\ HandleImportExcel(file)
    \/ \E file \in UserFiles : ReaderOnLoad(file)
    \/ \E key \in SortableFields \cap UserSortKeys : RequestSort(key)
    \/ \E field \in FilterableFields \cap UserFilterFields,
          value \in UserFilterTexts : HandleFilterChange(field, value)
    \/ PreviousPage
    \/ NextPage

SpecPresentation == Init /\ [][NextPresentation]_vars

----------------------------------------------------------------------------
(* The import on every kind of file: the grid is mounted with DataA, the
   user pins and hides columns and imports any of the files *)

NextImport ==
    \/ \E file \in Files :
           Cardinality(pendingReads) < MaxPending /\ HandleImportExcel(file)
    \/ \E file \in Files : ReaderOnLoad(file)
    \/ \E field \in Fields \cap UserPinFields, position \in Positions :
           PinColumn(field, position)
    \/ \E colId \in ToggleableFields \cap UserToggleFields :
           ToggleColumnVisibility(colId)
    \/ \E d \in DataSets, freshHandlers \in HandlerRenders :
           SetInitialData(d, freshHandlers)

SpecImport == Init /\ [][NextImport]_vars

----------------------------------------------------------------------------
(* Toolbar and loading flag *)

\* the Edit button is rendered
EditAvailable_AnySelection == props.onEditClick /\ Len(selectedRows) > 0

EditAvailable == props.onEditClick /\ Len(selectedRows) = 1

\* the Delete button is rendered
DeleteAvailable == props.onDeleteClick /\ Len(selectedRows) > 0

\* a click on Add: onClick is onAddClick, called with the click event
ToolbarAdd ==
    /\ OnAddClickSupplied
    /\ emitted' = [NoCalls EXCEPT !.onAddClick = << "click" >>]
    /\ headerInput' = "none"
    /\ UNCHANGED << initialData, rowData, selectedRows, sortConfig,
                    filterValues, currentPage, columnVisibility,
                    columnPinning, columnWidths, pendingReads, engine,
                    props, downloads,
                    api >>

\* a click on Edit: onEditClick(selectedRows[0]) when that row is truthy,
\* which every row object is
ToolbarEdit ==
    /\ EditAvailable
    /\ emitted' = [NoCalls EXCEPT !.onEditClick = << selectedRows[1] >>]
    /\ headerInput' = "none"
    /\ UNCHANGED << initialData, rowData, selectedRows, sortConfig,
                    filterValues, currentPage, columnVisibility,
                    columnPinning, columnWidths, pendingReads, engine,
                    props, downloads,
                    api >>

\* a click on Delete: onDeleteClick(selectedRows)
ToolbarDelete ==
    /\ DeleteAvailable
    /\ emitted' = [NoCalls EXCEPT !.onDeleteClick = << selectedRows >>]
    /\ headerInput' = "none"
    /\ UNCHANGED << initialData, rowData, selectedRows, sortConfig,
                    filterValues, currentPage, columnVisibility,
                    columnPinning, columnWidths, pendingReads, engine,
                    props, downloads,
                    api >>

\* a click on Refresh: onClick is onRefreshClick
ToolbarRefresh ==
    /\ OnRefreshClickSupplied
    /\ emitted' = [NoCalls EXCEPT !.onRefreshClick = << "click" >>]
    /\ headerInput' = "none"
    /\ UNCHANGED << initialData, rowData, selectedRows, sortConfig,
                    filterValues, currentPage, columnVisibility,
                    columnPinning, columnWidths, pendingReads, engine,
                    props, downloads,
                    api >>

\* the caller renders the grid with another isLoading; the flag is read
\* only for the class of the grid container
SetLoading(loading) ==
    /\ props.isLoading # loading
    /\ props' = [props EXCEPT !.isLoading = loading]
    /\ emitted' = NoCalls
    /\ headerInput' = "none"
    /\ UNCHANGED << initialData, rowData, selectedRows, sortConfig,
                    filterValues, currentPage, columnVisibility,
                    columnPinning, columnWidths, pendingReads, engine,
                    downloads,
                    api >>

\* the grid mounted with DataA and the declared columns, with or without an
\* edit and a delete callback, after the mount effects have run
InitToolbar ==
    /\ props \in [columnDefs : {inputColumnDefs}, onEditClick : BOOLEAN,
                  onDeleteClick : BOOLEAN, isLoading : {FALSE}]
    /\ initialData = DataA
    /\ rowData = DataA
    /\ selectedRows = << >>
    /\ sortConfig = [key |-> "null", direction |-> "null"]
    /\ filterValues = << >>
    /\ currentPage = 1
    /\ columnVisibility =
          VisibilityOf(EffectiveColumns(props.columnDefs, props.onEditClick,
                                        props.onDeleteClick, DEFAULT_COL_DEF))
    /\ columnPinning =
          PinningOf(EffectiveColumns(props.columnDefs, props.onEditClick,
                                     props.onDeleteClick, DEFAULT_COL_DEF))
    /\ columnWidths =
          WidthsOf(EffectiveColumns(props.columnDefs, props.onEditClick,
                                    props.onDeleteClick, DEFAULT_COL_DEF))
    /\ pendingReads = {}
    /\ engine = "prev-next"
    /\ emitted = NoCalls
    /\ headerInput = "none"
    /\ downloads = << >>
    /\ api = InitialApi

\* the user selects rows, sorts, filters and uses the toolbar while the
\* caller switches the loading flag
NextToolbar ==
    \/ \E row \in ClickableRows, checked \in BOOLEAN : RowCheckbox(row, checked)
    \/ \E row \in ClickableRows : HandleRowClick(row)
    \/ \E checked \in BOOLEAN : HeaderCheckbox(checked)
    \/ \E key \in SortableFields \cap UserSortKeys : RequestSort(key)
    \/ \E field \in FilterableFields \cap UserFilterFields,
          value \in UserFilterTexts : HandleFilterChange(field, value)
    \/ ToolbarAdd
    \/ ToolbarEdit
    \/ ToolbarDelete
    \/ ToolbarRefresh
    \/ \E loading \in BOOLEAN : SetLoading(loading)

SpecToolbar == InitToolbar /\ [][NextToolbar]_vars

----------------------------------------------------------------------------
(* The toolbar while the caller replaces the rows: the caller passes DataA
   and DataB, which have the same ids and other values, and the user selects
   rows, filters and clicks Edit and Delete *)

RefreshedDataSets == {DataA, DataB}

NextRefreshed ==
    \/ \E d \in RefreshedDataSets, freshHandlers \in HandlerRenders :
           SetInitialData(d, freshHandlers)
    \/ \E row \in ClickableRows, checked \in BOOLEAN : RowCheckbox(row, checked)
    \/ \E checked \in BOOLEAN : HeaderCheckbox(checked)
    \/ \E field \in FilterableFields \cap UserFilterFields,
          value \in UserFilterTexts : HandleFilterChange(field, value)
    \/ ToolbarEdit
    \/ ToolbarDelete

SpecRefreshed == Init /\ [][NextRefreshed]_vars

----------------------------------------------------------------------------
(* Resizing: the grid is mounted with DataA and the user drags the resize
   handle of any column that has one, any distance *)

\* the distances dragged, one of them further than any width
DragDeltas == {-500, -60, 60}

NextResize ==
    \E field \in ResizableFields, deltaX \in DragDeltas :
        HandleColumnResize(field, deltaX)

SpecResize == Init /\ [][NextResize]_vars

----------------------------------------------------------------------------
(* The Column Registry on every declaration: the grid is constructed with
   any list of at most MaxColumns declared columns and any choice of
   handlers, and then the mount effects run *)

\* declared columns in one list
MaxColumns == 2

\* declarations: one overriding defaults, one taking every default, one
\* with the field of the actions column, one pinned, hidden and not
\* resizable
ColumnPool ==
    { [field |-> "id", headerName |-> "ID", width |-> 80,
       sortable |-> FALSE, filter |-> FALSE],
      [field |-> "name", headerName |-> "Name"],
      [field |-> "actions", headerName |-> "Do", width |-> 90],
      [field |-> "price", headerName |-> "Price", pinned |-> "left",
       hide |-> TRUE, resizable |-> FALSE] }

ColumnLists == UNION {[1..n -> ColumnPool] : n \in 0..MaxColumns}

\* the state after construction: the maps are the empty objects of useState
InitMount ==
    /\ props \in [columnDefs : ColumnLists, onEditClick : BOOLEAN,
                  onDeleteClick : BOOLEAN, isLoading : {FALSE}]
    /\ initialData = DataA
    /\ rowData = DataA
    /\ selectedRows = << >>
    /\ sortConfig = [key |-> "null", direction |-> "null"]
    /\ filterValues = << >>
    /\ currentPage = 1
    /\ columnVisibility = << >>
    /\ columnPinning = << >>
    /\ columnWidths = << >>
    /\ pendingReads = {}
    /\ engine = "prev-next"
    /\ emitted = NoCalls
    /\ headerInput = "none"
    /\ downloads = << >>
    /\ api = InitialApi

\* the effect on [columnDefs], run after the first render
MountEffect ==
    LET cols == EffectiveColumns(props.columnDefs, props.onEditClick,
                                 props.onDeleteClick, DEFAULT_COL_DEF)
    IN  /\ columnVisibility' = VisibilityOf(cols)
        /\ columnWidths' = WidthsOf(cols)
        /\ columnPinning' = PinningOf(cols)
        /\ UNCHANGED << initialData, rowData, selectedRows, sortConfig,
                        filterValues, currentPage, pendingReads, engine,
                        emitted, headerInput, props, downloads,
                    api >>

NextMount == MountEffect

SpecMount == InitMount /\ [][NextMount]_vars

----------------------------------------------------------------------------
(* The Columns menu: the grid is mounted with DataA, the user shows and
   hides any column of the menu, pins a column, sorts, filters, and imports
   a workbook whose visibility map has no entry for the actions column *)

\* the column the user pins while using the Columns menu
MenuPinFields == {"price"}

NextVisibilityMenu ==
    \/ \E colId \in ToggleableFields : ToggleColumnVisibility(colId)
    \/ \E field \in Fields \cap MenuPinFields, position \in Positions :
           PinColumn(field, position)
    \/ \E file \in UserFiles :
           Cardinality(pendingReads) < MaxPending /\ HandleImportExcel(file)
    \/ \E file \in UserFiles : ReaderOnLoad(file)
    \/ \E key \in SortableFields \cap UserSortKeys : RequestSort(key)
    \/ \E field \in FilterableFields \cap UserFilterFields,
          value \in UserFilterTexts : HandleFilterChange(field, value)

SpecVisibilityMenu == Init /\ [][NextVisibilityMenu]_vars

----------------------------------------------------------------------------
(* Imports of files edited outside the grid: the grid is mounted with DataA
   and the user imports a file whose Metadata is valid JSON, pins a column
   and uses the Columns menu *)

EditedFiles == {"full", "oddpin"}

NextEditedImport ==
    \/ \E file \in EditedFiles :
           Cardinality(pendingReads) < MaxPending /\ HandleImportExcel(file)
    \/ \E file \in EditedFiles : ReaderOnLoad(file)
    \/ \E field \in Fields \cap MenuPinFields, position \in Positions :
           PinColumn(field, position)
    \/ \E colId \in ToggleableFields : ToggleColumnVisibility(colId)

SpecEditedImport == Init /\ [][NextEditedImport]_vars

----------------------------------------------------------------------------
(* Overlapping imports: the grid is mounted with DataA and the user starts
   the import of a second file while the first is still being read; the
   reads complete in any order *)

\* file reads that overlap
MaxOverlap == 2

NextOverlap ==
    \/ \E file \in Files :
           Cardinality(pendingReads) < MaxOverlap /\ HandleImportExcel(file)
    \/ \E file \in Files : ReaderOnLoad(file)

SpecOverlap == Init /\ [][NextOverlap]_vars

----------------------------------------------------------------------------
(* The product API under requests of two users and of callers that are not
   signed in, for every product id, with the database up or failing *)

NextApi ==
    \/ \E user \in Users \cup {Anonymous}, dbUp \in BOOLEAN :
           ProductsGET(user, dbUp)
    \/ \E user \in Users \cup {Anonymous}, body \in Bodies, dbUp \in BOOLEAN :
           ProductsPOST(user, body, dbUp)
    \/ \E user \in Users \cup {Anonymous}, id \in 1..MaxProducts,
          dbUp \in BOOLEAN : ProductGET(user, id, dbUp)
    \/ \E user \in Users \cup {Anonymous}, id \in 1..MaxProducts,
          body \in Bodies, dbUp \in BOOLEAN : ProductPUT(user, id, body, dbUp)
    \/ \E user \in Users \cup {Anonymous}, id \in 1..MaxProducts,
          dbUp \in BOOLEAN : ProductDELETE(user, id, dbUp)

SpecApi == Init /\ [][NextApi]_vars

----------------------------------------------------------------------------
(* Export and import of the exported file: the grid is mounted with DataA,
   the user pins and hides columns, filters and pages, exports while no
   file is being read, and later imports the exported file; the caller
   replaces the data, also with the rows onDataChange has just handed it *)

\* the rows a caller that keeps them (handleDataChange: setData(newData))
\* was just handed by onDataChange
CallerData == {emitted.onDataChange[k] : k \in 1..Len(emitted.onDataChange)}

\* the column the user pins before exporting
RoundTripPinFields == {"price"}

\* the filter texts typed before exporting: none, and one that keeps the
\* last row of DataC and no row of DataA
RoundTripFilterTexts == { << >>, << "1" >> }

NextRoundTrip ==
    \/ pendingReads = {} /\ HandleExportExcel
    \/ \E file \in ExportNames :
           Cardinality(pendingReads) < MaxPending /\ HandleImportExcel(file)
    \/ \E file \in ExportNames : ReaderOnLoad(file)
    \/ \E field \in Fields \cap RoundTripPinFields, position \in Positions :
           PinColumn(field, position)
    \/ \E colId \in ToggleableFields \cap UserToggleFields :
           ToggleColumnVisibility(colId)
    \/ \E field \in FilterableFields \cap UserFilterFields,
          value \in RoundTripFilterTexts : HandleFilterChange(field, value)
    \/ NextPage
    \/ \E d \in {DataC} \cup CallerData, freshHandlers \in HandlerRenders :
           SetInitialData(d, freshHandlers)

SpecRoundTrip == Init /\ [][NextRoundTrip]_vars

----------------------------------------------------------------------------
(* Properties of the selection tracker, checked under Spec *)

Ids(rows) == {rows[k].id : k \in 1..Len(rows)}

\* C1: selection is keyed by row id, not by object reference.  A step that
\* replaces the Record Store (new initialData or an import) invokes no
\* onRowSelected, and every row of the new store whose id was selected is
\* reported selected by isRowSelected, whichever object carries the id.
C1_SelectionById ==
    [][ rowData' # rowData =>
          /\ emitted'.onRowSelected = << >>
          /\ \A k \in 1..Len(rowData') :
                 HasId(selectedRows, rowData'[k].id)
                     => (isRowSelected(rowData[k]))' ]_vars

\* a selected id is carried in the store by another object than the one that
\* was selected, and that object is shown selected
C1_Witness ==
    \E k \in 1..Len(selectedRows), j \in 1..Len(rowData) :
        /\ selectedRows[k].id = rowData[j].id
        /\ selectedRows[k] # rowData[j]
        /\ isRowSelected(rowData[j])

\* a step in which the user deselects a row: a row checkbox unchecked, or a
\* click on a selected row
DeselectStep ==
    \E row \in ClickableRows :
        \/ RowCheckbox(row, FALSE)
        \/ (isRowSelected(row) /\ HandleRowClick(row))

\* C2 as claimed: replacing the Record Store leaves the selection unchanged,
\* and a non-empty selection becomes empty only when the header checkbox is
\* unchecked or the user deselects a row.
C2_EmptiedOnlyByUncheckOrDeselect ==
    [][ /\ (rowData' # rowData => selectedRows' = selectedRows)
        /\ (selectedRows # << >> /\ selectedRows' = << >>
              => (headerInput' = "unchecked" \/ DeselectStep)) ]_vars

\* C2 as amended: replacing the Record Store leaves the selection unchanged,
\* and a non-empty selection becomes empty only when the header checkbox is
\* unchecked, when it is checked while the rendered page is empty, or when
\* the user deselects a row.
C2_EmptiedOnlyByHeaderOrDeselect ==
    [][ /\ (rowData' # rowData => selectedRows' = selectedRows)
        /\ (selectedRows # << >> /\ selectedRows' = << >>
              => \/ headerInput' = "unchecked"
                 \/ (headerInput' = "checked" /\ paginatedData = << >>)
                 \/ DeselectStep) ]_vars

\* the selection holds an id that the Record Store no longer has
C2_Witness ==
    \E k \in 1..Len(selectedRows) : ~HasId(rowData, selectedRows[k].id)

\* C3: every step that takes the selection from zero rows or from more than
\* one row to exactly one row invokes onRowSelected with that row.
C3_NotifiedWhenSingle ==
    [][ (Len(selectedRows) # 1 /\ Len(selectedRows') = 1)
          => emitted'.onRowSelected = << selectedRows'[1] >> ]_vars

C5_SelectAllIsPage ==
    [][ headerInput' = "checked" =>
          /\ \A k \in 1..Len(paginatedData) :
                 HasId(selectedRows', paginatedData[k].id)
          /\ Ids(selectedRows') = Ids(paginatedData)
          /\ UNCHANGED << rowData, filterValues, sortConfig, currentPage >> ]_vars

\* the header checkbox was checked while the filtered view had more rows than
\* the page
C5_Witness ==
    /\ headerInput = "checked"
    /\ paginatedData # << >>
    /\ Len(sortedData) > Len(paginatedData)
    /\ Ids(selectedRows) = Ids(paginatedData)

----------------------------------------------------------------------------
(* Properties of the pipeline, checked under SpecPipeline *)

\* needle occurs in text, letter case ignored
ContainsIgnoringCase(text, needle) ==
    \E off \in 0..(Len(text) - Len(needle)) :
        \A j \in 1..Len(needle) : LowerChar(text[off + j]) = LowerChar(needle[j])

ActiveFilters == {f \in DOMAIN filterValues : filterValues[f] # << >>}

\* C6: a row is in the filtered view exactly when, for every field with a
\* non-empty filter text, its value is not null/undefined and its text
\* contains the filter text, letter case ignored; the filtered view keeps
\* the order of the Record Store.
C6_FilterStage ==
    /\ \A k \in 1..Len(rowData) :
          HasId(filteredData, rowData[k].id)
            <=> \A f \in ActiveFilters :
                    /\ ~IsNullish(CellValue(rowData[k], f))
                    /\ ContainsIgnoringCase(ToText(CellValue(rowData[k], f)),
                                            filterValues[f])
    /\ \A k \in 1..Len(filteredData) :
          \E j \in 1..Len(rowData) : filteredData[k] = rowData[j]
    /\ \A k \in 1..(Len(filteredData) - 1) :
          filteredData[k].id < filteredData[k + 1].id

\* two filters are active, some row passes both and some row does not
C6_Witness ==
    /\ Cardinality(ActiveFilters) = 2
    /\ filteredData # << >>
    /\ Len(filteredData) < Len(rowData)

NumbersAscending(rows, key) ==
    \A i, j \in 1..Len(rows) :
        (i < j /\ CellValue(rows[i], key).t = "num"
               /\ CellValue(rows[j], key).t = "num")
            => CellValue(rows[i], key).n <= CellValue(rows[j], key).n

NumbersDescending(rows, key) ==
    \A i, j \in 1..Len(rows) :
        (i < j /\ CellValue(rows[i], key).t = "num"
               /\ CellValue(rows[j], key).t = "num")
            => CellValue(rows[i], key).n >= CellValue(rows[j], key).n

\* C7: a sort request on a field other than the active one sorts ascending
\* by it, a request on the field sorted ascending sorts descending, a request
\* on the field sorted descending clears the sort and the rendered order is
\* the Record Store order again; one field at most is active, and no sort
\* request changes the Record Store.
C7_SortCycle ==
    [][ \A key \in SortableFields :
             RequestSort(key) =>
               /\ rowData' = rowData
               /\ (sortConfig'.key = "null" <=> sortConfig'.direction = "null")
               /\ (sortConfig.key # key =>
                     /\ sortConfig' = [key |-> key, direction |-> "ascending"]
                     /\ NumbersAscending(SortRows(filteredData, sortConfig', engine), key))
               /\ (sortConfig = [key |-> key, direction |-> "ascending"] =>
                     /\ sortConfig' = [key |-> key, direction |-> "descending"]
                     /\ NumbersDescending(SortRows(filteredData, sortConfig', engine), key))
               /\ (sortConfig = [key |-> key, direction |-> "descending"] =>
                     /\ sortConfig' = [key |-> "null", direction |-> "null"]
                     /\ SortRows(filteredData, sortConfig', engine) = filteredData)
               /\ UNCHANGED << filterValues, engine >> ]_vars

\* a descending sort that shows the rows in another order than the store
C7_Witness ==
    /\ sortConfig.direction = "descending"
    /\ sortedData # filteredData
    /\ filteredData = rowData

NullAt(rows, k) == IsNullish(CellValue(rows[k], sortConfig.key))

\* C8: under an active sort every row without a value in the sort field
\* comes before every row with one when ascending, after when descending.
C8_NullsFirstAscending ==
    sortConfig.key # "null" =>
        \A i, j \in 1..Len(sortedData) :
            (NullAt(sortedData, i) /\ ~NullAt(sortedData, j)) =>
                IF sortConfig.direction = "ascending" THEN i < j ELSE i > j

\* a descending sort of rows of which two have no value and one has
C8_Witness ==
    /\ sortConfig.direction = "descending"
    /\ Cardinality({k \in 1..Len(sortedData) : NullAt(sortedData, k)}) >= 2
    /\ \E k \in 1..Len(sortedData) : ~NullAt(sortedData, k)

\* C9: the rendered page is the slice [(currentPage-1)*rowsPerPage,
\* currentPage*rowsPerPage) of the sorted sequence of the filtered rows of
\* the Record Store.
C9_PageIsSliceOfSortedFiltered ==
    LET all == SortRows(FilterRows(rowData, filterValues), sortConfig, engine)
        off == (currentPage - 1) * rowsPerPage
    IN  /\ Len(paginatedData) = Max(0, Min(rowsPerPage, Len(all) - off))
        /\ \A k \in 1..Len(paginatedData) : paginatedData[k] = all[off + k]

\* the second page of a filtered, sorted view
C9_Witness ==
    /\ currentPage = 2
    /\ paginatedData # << >>
    /\ sortConfig.key # "null"
    /\ ActiveFilters # {}
    /\ sortedData # rowData

\* C10: every change of a filter value sets currentPage to 1.
C10_FilterChangeResetsPage ==
    [][ filterValues' # filterValues => currentPage' = 1 ]_vars

\* a filter is set on a view of more than one page, shown from page 1
C10_Witness ==
    /\ ActiveFilters # {}
    /\ totalPages > 1
    /\ currentPage = 1

----------------------------------------------------------------------------
(* Pagination range *)

\* C11: in every state in which the filtered view is non-empty, currentPage
\* is at most totalPages.
C11_PageWithinRange ==
    filteredData # << >> => currentPage <= totalPages

\* C12: with N filtered rows and page size P, totalPages is ceil(N/P): the
\* least number of pages of P rows that hold N rows; when there are rows the
\* last page holds N - (totalPages-1)*P of them, between 1 and P; and
\* currentPage is never below 1.
C12_PaginationBoundary ==
    LET N == Len(filteredData)
        P == rowsPerPage
        lastPage == Paginate(sortedData, totalPages)
    IN  /\ totalPages * P >= N
        /\ (totalPages - 1) * P < N
        /\ totalPages >= 0
        /\ N > 0 => /\ Len(lastPage) = N - (totalPages - 1) * P
                    /\ Len(lastPage) >= 1
                    /\ Len(lastPage) <= P
        /\ currentPage >= 1

\* the user is on the last page of a view of more than five pages whose rows
\* fill their pages exactly
C12_Witness ==
    /\ Len(filteredData) = 6 * rowsPerPage
    /\ currentPage = 6
    /\ totalPages = 6
    /\ Len(paginatedData) = rowsPerPage

----------------------------------------------------------------------------
(* Properties of the presentation state, checked under SpecPresentation *)

\* position of a field in the declaration order
DeclaredAt(f) == CHOOSE i \in 1..Len(ColumnFields) : ColumnFields[i] = f

InDeclarationOrder(list) ==
    \A i, j \in 1..Len(list) : i < j => DeclaredAt(list[i]) < DeclaredAt(list[j])

Occurrences(list, f) == Cardinality({k \in 1..Len(list) : list[k] = f})

\* C13: the left-pinned, center and right-pinned lists hold only declared
\* columns, every declared column occurs exactly once in the three lists
\* together, each list is in declaration order, a column is in the left
\* (right) list exactly when the map pins it left (right), and a field of
\* the map that is not declared is in no list.
C13_PinPartition ==
    LET g == groupedColumns
        all == g.leftPinned \o g.center \o g.rightPinned
    IN  /\ \A k \in 1..Len(all) : all[k] \in Fields
        /\ \A f \in Fields : Occurrences(all, f) = 1
        /\ InDeclarationOrder(g.leftPinned)
        /\ InDeclarationOrder(g.center)
        /\ InDeclarationOrder(g.rightPinned)
        /\ \A f \in Fields :
              /\ Occurrences(g.leftPinned, f) = 1
                    <=> (f \in DOMAIN columnPinning /\ columnPinning[f] = "left")
              /\ Occurrences(g.rightPinned, f) = 1
                    <=> (f \in DOMAIN columnPinning /\ columnPinning[f] = "right")
        /\ \A f \in (DOMAIN columnPinning) \ Fields : Occurrences(all, f) = 0

\* id is pinned left, price right, the other columns are in the center, one
\* of them without an entry in the map, and the map pins a column that is
\* not declared
C13_Witness ==
    /\ groupedColumns.leftPinned = << "id" >>
    /\ groupedColumns.rightPinned = << "price" >>
    /\ groupedColumns.center = << "name", "actions" >>
    /\ "actions" \notin DOMAIN columnPinning
    /\ "legacy" \in DOMAIN columnPinning
    /\ columnPinning["legacy"] = "left"

\* the list of the partition a position stands for
ListOf(g, position) ==
    IF position = "left" THEN g.leftPinned
    ELSE IF position = "right" THEN g.rightPinned
    ELSE g.center

\* C14: a pin or unpin of a column sets that column's entry of the pinning
\* map to the position and leaves every other entry as it was, the column is
\* then in the list of that position and every other column in the list it
\* was in, and onColumnPinningChange is invoked exactly once, with the whole
\* map as it is after the change.
C14_PinNotifiesFullMap ==
    [][ \A field \in Fields, position \in Positions :
            PinColumn(field, position) =>
              /\ field \in DOMAIN columnPinning'
              /\ columnPinning'[field] = position
              /\ \A f \in (DOMAIN columnPinning) \ {field} :
                     /\ f \in DOMAIN columnPinning'
                     /\ columnPinning'[f] = columnPinning[f]
              /\ Occurrences(ListOf(GroupColumns(columnPinning'), position),
                             field) = 1
              /\ \A f \in Fields \ {field}, pos \in Positions :
                     Occurrences(ListOf(GroupColumns(columnPinning'), pos), f)
                       = Occurrences(ListOf(groupedColumns, pos), f)
              /\ emitted'.onColumnPinningChange = << columnPinning' >> ]_vars

\* pinColumn has just reported a map with two pinned columns: no import
\* reports a map without an entry for "legacy"
C14_Witness ==
    /\ emitted.onColumnPinningChange = << columnPinning >>
    /\ "legacy" \notin DOMAIN columnPinning
    /\ PinnedStatus(columnPinning, "id") = "left"
    /\ PinnedStatus(columnPinning, "price") = "right"

\* the section a column is rendered in
SectionOf(pinning, f) ==
    IF PinnedStatus(pinning, f) \in {"left", "right"}
    THEN PinnedStatus(pinning, f) ELSE "center"

\* C15: the section of a column changes only in a step that is a pin or
\* unpin of that column.
C15_PinChangesOnlyByPinColumn ==
    [][ \A f \in Fields :
            SectionOf(columnPinning', f) # SectionOf(columnPinning, f)
              => \E position \in Positions : PinColumn(f, position) ]_vars

\* C16: every field of the effective column list has an entry in the
\* visibility map, the width map and the pinning map.
C16_PresentationTotal ==
    /\ Fields \subseteq DOMAIN columnVisibility
    /\ Fields \subseteq DOMAIN columnWidths
    /\ Fields \subseteq DOMAIN columnPinning

\* C17: a step in which the caller supplies new initialData, the columns and
\* the edit/delete capabilities being the same, leaves the visibility, width
\* and pinning maps as they were.
C17_DataChangeKeepsPresentation ==
    [][ initialData' # initialData
          => UNCHANGED << columnVisibility, columnWidths, columnPinning >> ]_vars

----------------------------------------------------------------------------
(* Properties of the import, checked under SpecImport *)

\* the first sheet of the workbook can be read
FirstSheetReadable(workbook) ==
    /\ workbook.readable
    /\ Len(workbook.SheetNames) > 0
    /\ workbook.SheetNames[1] \in DOMAIN workbook.Sheets

\* C18: when an import completes on a workbook whose first sheet can be
\* read, the Record Store is the rows of that sheet and onDataChange has
\* been invoked with them.
C18_ImportReplacesStore ==
    [][ \A file \in Files :
            (ReaderOnLoad(file) /\ FirstSheetReadable(Workbook(file))) =>
              /\ rowData' = FirstSheetRows(Workbook(file))
              /\ emitted'.onDataChange = << FirstSheetRows(Workbook(file)) >>
      ]_vars

\* C19: when an import completes on a file that is unreadable, has no sheet
\* or lacks the sheet its first name stands for, the Record Store and the
\* presentation maps are as before, no observer is invoked, a diagnostic is
\* logged and no exception leaves the handler.
C19_FailedImportChangesNothing ==
    [][ \A file \in Files :
            (ReaderOnLoad(file) /\ ~FirstSheetReadable(Workbook(file))) =>
              /\ rowData' = rowData
              /\ UNCHANGED << columnPinning, columnVisibility, columnWidths,
                              selectedRows >>
              /\ emitted'.onDataChange = << >>
              /\ emitted'.onColumnPinningChange = << >>
              /\ emitted'.onColumnVisibilityChange = << >>
              /\ Len(emitted'.consoleError) = 1
              /\ emitted'.uncaught = << >> ]_vars

\* an import has just failed on a missing worksheet while the store holds
\* the rows of an earlier import
C19_Witness ==
    /\ emitted.consoleError = << "Worksheet not found in Excel file" >>
    /\ rowData = ImportedRows
    /\ initialData # rowData

\* the kind of text the Metadata sheet of the workbook has under key k:
\* "json", "garbage", "empty", or "absent" when there is no such row
MetadataText(workbook, k) ==
    LET rows == IF "Metadata" \in DOMAIN workbook.Sheets
                THEN workbook.Sheets["Metadata"] ELSE << >>
        hits == {i \in 1..Len(rows) : rows[i].key = k}
    IN  IF hits = {} THEN "absent"
        ELSE rows[CHOOSE i \in hits : \A j \in hits : i <= j].value.text

MetadataValue(workbook, k) ==
    LET rows == workbook.Sheets["Metadata"]
        hits == {i \in 1..Len(rows) : rows[i].key = k}
    IN  rows[CHOOSE i \in hits : \A j \in hits : i <= j].value.val

\* C20: when an import completes on a workbook whose first sheet can be
\* read, a columnPinning (columnVisibility) value that does not parse leaves
\* that map at its prior value and its observer uninvoked, a value that
\* parses replaces that map whatever the other value is, and the rows of
\* the first sheet, when it has rows, become the Record Store.
C20_MetadataPerField ==
    [][ \A file \in Files :
            (ReaderOnLoad(file) /\ FirstSheetReadable(Workbook(file))) =>
              LET wb == Workbook(file)
              IN  /\ MetadataText(wb, "columnPinning") # "json" =>
                        /\ columnPinning' = columnPinning
                        /\ emitted'.onColumnPinningChange = << >>
                  /\ MetadataText(wb, "columnVisibility") # "json" =>
                        /\ columnVisibility' = columnVisibility
                        /\ emitted'.onColumnVisibilityChange = << >>
                  /\ MetadataText(wb, "columnPinning") = "json" =>
                        /\ columnPinning' = MetadataValue(wb, "columnPinning")
                        /\ emitted'.onColumnPinningChange = << columnPinning' >>
                  /\ MetadataText(wb, "columnVisibility") = "json" =>
                        /\ columnVisibility' =
                               MetadataValue(wb, "columnVisibility")
                        /\ emitted'.onColumnVisibilityChange
                               = << columnVisibility' >>
                  /\ FirstSheetRows(wb) # << >> =>
                        /\ rowData' = FirstSheetRows(wb)
                        /\ emitted'.onDataChange = << rowData' >>
                  /\ emitted'.uncaught = << >> ]_vars

\* an import whose columnPinning value did not parse has just completed: the
\* pinning map is still the one the user made, the visibility map is the
\* imported one and the rows are the imported rows
C20_Witness ==
    /\ emitted.consoleError = << "Error parsing column pinning settings:" >>
    /\ PinnedStatus(columnPinning, "id") = "left"
    /\ emitted.onColumnVisibilityChange = << ForeignVisibility >>
    /\ columnVisibility = ForeignVisibility
    /\ rowData = ImportedRows
    /\ emitted.onDataChange = << ImportedRows >>

----------------------------------------------------------------------------
(* Properties of export and import, checked under SpecRoundTrip *)

\* the fields of the written data sheet that a row object carries
SheetFields(file) ==
    {file.data.header[i] : i \in 1..Len(file.data.header)}
        \cap {"id", "name", "price"}

\* two row sequences agree field for field on the given fields; a field
\* without a value (null, or absent) on one side is without a value on the
\* other
SameContent(rows, original, fields) ==
    /\ Len(rows) = Len(original)
    /\ \A k \in 1..Len(rows) : \A f \in fields :
           CellValue(rows[k], f) = CellValue(original[k], f)

C22_ImportRestoresExportedMaps ==
    [][ /\ \A i \in 1..Len(downloads) :
              ReaderOnLoad(exportFileName) =>
                /\ columnPinning' = downloads[i].at.columnPinning
                /\ columnVisibility' = downloads[i].at.columnVisibility
        /\ (emitted.onDataChange # << >>
              /\ initialData' = emitted.onDataChange[1])
              => UNCHANGED << columnPinning, columnVisibility >> ]_vars

\* C23: an export writes a data sheet with one row per row of the filtered
\* view, whatever the page; the header is the fields of the visible
\* columns, every cell is the row's value in a visible column and every
\* value of a visible column has its cell; and the Metadata sheet has the
\* pinning map under columnPinning and the visibility map under
\* columnVisibility.
C23_ExportContent ==
    [][ HandleExportExcel =>
          LET file == downloads'[Len(downloads')]
              visible == {f \in Fields :
                            /\ f \in DOMAIN columnVisibility
                            /\ columnVisibility[f] = TRUE}
          IN  /\ Len(file.data.rows) = Len(filteredData)
              /\ filteredData # << >> =>
                    /\ {file.data.header[i] : i \in 1..Len(file.data.header)}
                         = visible
                    /\ Len(file.data.header) = Cardinality(visible)
              /\ \A k \in 1..Len(filteredData) :
                    /\ DOMAIN file.data.rows[k] \subseteq visible
                    /\ \A f \in visible :
                          IF IsNullish(CellValue(filteredData[k], f))
                          THEN f \notin DOMAIN file.data.rows[k]
                          ELSE /\ f \in DOMAIN file.data.rows[k]
                               /\ file.data.rows[k][f]
                                    = CellValue(filteredData[k], f)
              /\ MetadataText(TwoSheets(<< >>, file.metadata),
                              "columnPinning") = "json"
              /\ MetadataValue(TwoSheets(<< >>, file.metadata),
                               "columnPinning") = columnPinning
              /\ MetadataValue(TwoSheets(<< >>, file.metadata),
                               "columnVisibility") = columnVisibility ]_vars

\* a file was exported from the second page of a filtered view of more rows
\* than a page holds, with a column hidden
C23_Witness ==
    /\ downloads # << >>
    /\ downloads[1].at.currentPage = 2
    /\ Len(downloads[1].data.rows) > rowsPerPage
    /\ Len(downloads[1].data.rows) = Len(downloads[1].at.filteredData)
    /\ "name" \notin SheetFields(downloads[1])
    /\ \E f \in DOMAIN downloads[1].at.columnPinning :
           downloads[1].at.columnPinning[f] = "left"

----------------------------------------------------------------------------
(* Properties of overlapping imports, checked under SpecOverlap *)

\* C24: whatever other reads are pending and whatever was imported before,
\* the completion of the read of a workbook whose first sheet has rows
\* leaves no error uncaught, makes these rows the Record Store and leaves
\* the other reads pending; so of two overlapping imports the one whose read
\* completes last determines the Record Store.
C24_LastCompletionWins ==
    [][ \A file \in Files :
            ( /\ ReaderOnLoad(file)
              /\ FirstSheetReadable(Workbook(file))
              /\ FirstSheetRows(Workbook(file)) # << >> )
              => /\ rowData' = FirstSheetRows(Workbook(file))
                 /\ emitted'.onDataChange = << rowData' >>
                 /\ emitted'.uncaught = << >>
                 /\ pendingReads' = pendingReads \ {file} ]_vars

\* the read of one workbook has just completed and replaced the rows while
\* the read of the other workbook, started before, is still pending
C24_Witness ==
    /\ pendingReads = {"data"}
    /\ emitted.onDataChange = << ImportedRows >>
    /\ rowData = ImportedRows

----------------------------------------------------------------------------
(* Properties of the Column Registry, checked under SpecMount *)

\* the effective column list of the props
Registry ==
    EffectiveColumns(props.columnDefs, props.onEditClick,
                     props.onDeleteClick, DEFAULT_COL_DEF)

\* the effective list is the declared columns in declaration order, each
\* with its declared values and, where it declares none, the default value,
\* followed by one non-sortable, non-filterable actions column exactly when
\* synthetic holds
RegistryIs(synthetic) ==
    LET declared == props.columnDefs
    IN  /\ Len(Registry) = Len(declared) + (IF synthetic THEN 1 ELSE 0)
        /\ \A i \in 1..Len(declared) :
              /\ i <= Len(Registry)
              /\ DOMAIN Registry[i]
                    = (DOMAIN declared[i]) \cup (DOMAIN DEFAULT_COL_DEF)
              /\ \A k \in DOMAIN declared[i] :
                    Registry[i][k] = declared[i][k]
              /\ \A k \in (DOMAIN DEFAULT_COL_DEF) \ (DOMAIN declared[i]) :
                    Registry[i][k] = DEFAULT_COL_DEF[k]
        /\ synthetic =>
              /\ Registry[Len(Registry)].field = "actions"
              /\ Registry[Len(Registry)].sortable = FALSE
              /\ Registry[Len(Registry)].filter = FALSE
              /\ Cardinality({i \in 1..Len(Registry) :
                                 Registry[i].field = "actions"}) = 1

----------------------------------------------------------------------------
(* Properties of resizing, checked under SpecResize *)

\* C26: the width entry of the actions column is 120 in every state; no
\* drag of a resize handle changes it.
C26_ActionsWidthFixed ==
    /\ "actions" \in DOMAIN columnWidths
    /\ columnWidths["actions"] = 120

\* C27: a resize of any column by any distance leaves that column's width at
\* 100 or more, raises no error, and leaves the width of every other
\* column as it was.
C27_ResizeClamps ==
    [][ \A field \in Fields, deltaX \in DragDeltas :
            HandleColumnResize(field, deltaX) =>
              /\ columnWidths'[field] >= 100
              /\ DOMAIN columnWidths' = DOMAIN columnWidths
              /\ \A other \in DOMAIN columnWidths \ {field} :
                     columnWidths'[other] = columnWidths[other]
              /\ emitted'.uncaught = << >>
              /\ emitted'.consoleError = << >> ]_vars

\* the id column, declared 80 wide, was dragged to the left and is at the
\* floor
C27_Witness ==
    /\ columnWidths["id"] = 100
    /\ columnWidths["price"] = 120

----------------------------------------------------------------------------
(* Properties of the loading flag and the toolbar, checked under
   SpecToolbar *)

\* C28: while isLoading is true no step of the user changes the state of
\* the grid or invokes a callback of the caller.
C28_LoadingSuppressesInteraction ==
    [][ (props.isLoading /\ props' = props) =>
          /\ UNCHANGED << rowData, selectedRows, sortConfig, filterValues,
                          currentPage, columnVisibility, columnPinning,
                          columnWidths, pendingReads >>
          /\ emitted' = NoCalls ]_vars

----------------------------------------------------------------------------
(* Properties of the sections of the grid body, checked under
   SpecPresentation *)

\* C29: exactly one rendered section has the checkbox column: the left
\* section when a column is pinned left, otherwise the center section; the
\* right section never has it; and every rendered section maps over the
\* rows of the page, in their order.
C29_CheckboxInLeftmostSection ==
    LET sections == << LeftSection, CenterSection, RightSection >>
    IN  /\ Cardinality({k \in 1..3 : sections[k].rendered
                                        /\ sections[k].checkbox}) = 1
        /\ LeftSection.rendered <=> Len(groupedColumns.leftPinned) > 0
        /\ Len(groupedColumns.leftPinned) > 0 => LeftSection.checkbox
        /\ Len(groupedColumns.leftPinned) = 0 => CenterSection.checkbox
        /\ ~RightSection.checkbox
        /\ \A k \in 1..3 :
              sections[k].rendered => sections[k].rows = paginatedData

\* a column is pinned left and another right: all three sections are
\* rendered, with rows, and the checkbox column is in the left one
C29_Witness ==
    /\ LeftSection.rendered /\ RightSection.rendered
    /\ LeftSection.checkbox /\ ~CenterSection.checkbox
    /\ groupedColumns.leftPinned = << "price" >>
    /\ groupedColumns.rightPinned = << "id" >>
    /\ Len(LeftSection.rows) > 0

----------------------------------------------------------------------------
(* Further properties of the selection tracker, checked under Spec *)

\* C31: a step that takes the selection from empty to one row calls
\* onRowSelected once, with that row, and a step that grows the selection
\* to more than one row does not call onRowSelected.
C31_NotifiedForFirstRowOnly ==
    [][ /\ (selectedRows = << >> /\ Len(selectedRows') = 1)
              => emitted'.onRowSelected = << selectedRows'[1] >>
        /\ (Len(selectedRows') > Len(selectedRows) /\ Len(selectedRows') > 1)
              => emitted'.onRowSelected = << >> ]_vars

\* a second row has just been added to the selection by its checkbox or a
\* click on it, and no callback was invoked
C31_Witness ==
    /\ Len(selectedRows) = 2
    /\ selectedRows[1].id # selectedRows[2].id
    /\ headerInput = "none"
    /\ emitted = NoCalls
    /\ sortConfig.direction = "descending"
    /\ pendingReads = {}

----------------------------------------------------------------------------
(* Further properties of pinning and visibility, checked under
   SpecPresentation *)

\* the columns of a list that declare a pinIndex have them in ascending
\* order
ByPinIndex(list) ==
    \A i, j \in 1..Len(list) :
        ( /\ i < j
          /\ "pinIndex" \in DOMAIN ColumnOf(list[i])
          /\ "pinIndex" \in DOMAIN ColumnOf(list[j]) )
          => ColumnOf(list[i]).pinIndex <= ColumnOf(list[j]).pinIndex

\* C32: the columns of the left-pinned list and the columns of the
\* right-pinned list are in the order of their pinIndex, lower values
\* first.
C32_PinnedByPinIndex ==
    /\ ByPinIndex(groupedColumns.leftPinned)
    /\ ByPinIndex(groupedColumns.rightPinned)

----------------------------------------------------------------------------
(* Properties of the Columns menu, checked under SpecVisibilityMenu *)

\* the columns whose entry in the map is true
VisibleSet(visibility) ==
    {f \in DOMAIN visibility : visibility[f] = TRUE}

\* C33: toggling a column makes it visible if it was not and hidden if it
\* was, leaves every other entry of the visibility map, the pinning map,
\* the width map, the selection and the Record Store as they were, and
\* calls onColumnVisibilityChange once with the whole new map; toggling the
\* same column again gives the set of visible columns there was before.
C33_ToggleFlipsOneEntry ==
    [][ \A colId \in ToggleableFields :
            ToggleColumnVisibility(colId) =>
              /\ colId \in DOMAIN columnVisibility'
              /\ (colId \in VisibleSet(columnVisibility'))
                    <=> (colId \notin VisibleSet(columnVisibility))
              /\ DOMAIN columnVisibility'
                    = (DOMAIN columnVisibility) \cup {colId}
              /\ \A other \in (DOMAIN columnVisibility) \ {colId} :
                     columnVisibility'[other] = columnVisibility[other]
              /\ UNCHANGED << columnPinning, columnWidths, selectedRows,
                              rowData >>
              /\ emitted'.onColumnVisibilityChange = << columnVisibility' >>
              /\ VisibleSet(NextVisibility(columnVisibility', colId))
                    = VisibleSet(columnVisibility) ]_vars

\* after the import of a visibility map without an entry for the actions
\* column, the actions column was toggled and has its entry, while another
\* column is hidden
C33_Witness ==
    /\ "legacy" \in DOMAIN columnPinning
    /\ "actions" \in VisibleSet(columnVisibility)
    /\ "name" \notin VisibleSet(columnVisibility)
    /\ emitted.onColumnVisibilityChange = << columnVisibility >>

----------------------------------------------------------------------------
(* The view as a function of its inputs, checked under SpecVisibilityMenu *)

----------------------------------------------------------------------------
(* Properties of the product API, checked under SpecApi *)

\* C35: a request without a signed-in user, to any of the five handlers, is
\* answered with status 401 and the body {error: 'Unauthorized'}, sends no
\* statement to the database and leaves the table as it was.
C35_AnonymousGets401 ==
    [][ (api' # api /\ api'.request.user = Anonymous) =>
          /\ api'.response = Json([error |-> "Unauthorized"], 401)
          /\ api'.statements = << >>
          /\ api'.table = api.table
          /\ api'.nextId = api.nextId ]_vars

\* a DELETE without a signed-in user for a product that exists was answered
\* with 401
C35_Witness ==
    /\ api.request.method = "DELETE"
    /\ api.request.user = Anonymous
    /\ api.request.id \in DOMAIN api.table
    /\ api.response.status = 401

\* C36: a GET, PUT or DELETE for a product whose nguoiThucHien is another
\* user is not answered with status 200 and leaves the table as it was.
C36_OtherUsersProductUntouched ==
    [][ ( /\ api' # api
          /\ api'.request.id \in DOMAIN api.table
          /\ api'.request.user \in Users
          /\ api.table[api'.request.id].nguoiThucHien # api'.request.user )
          => /\ api'.response.status # 200
             /\ api'.table = api.table ]_vars

----------------------------------------------------------------------------
(* Properties of the header checkbox, checked under Spec *)

\* C37: in every reachable state the header checkbox is shown checked exactly
\* when the current page has rows and every row of the page is selected.
C37_CheckedIffPageSelected ==
    HeaderCheckboxChecked
        <=> /\ paginatedData # << >>
            /\ \A i \in 1..Len(paginatedData) : isRowSelected(paginatedData[i])

----------------------------------------------------------------------------
(* Properties of the toolbar over replaced rows, checked under SpecRefreshed *)

\* a row of the current rowData with the id and the field values of row
IsCurrentRow(row) ==
    \E k \in 1..Len(rowData) :
        /\ rowData[k].id = row.id
        /\ rowData[k].name = row.name
        /\ rowData[k].price = row.price

\* C38: the row handed to onEditClick and the rows handed to onDeleteClick
\* carry the values rowData currently holds under their ids.
C38_ToolbarHandsCurrentRows ==
    /\ \A i \in 1..Len(emitted.onEditClick) :
           IsCurrentRow(emitted.onEditClick[i])
    /\ \A i \in 1..Len(emitted.onDeleteClick) :
           \A j \in 1..Len(emitted.onDeleteClick[i]) :
               IsCurrentRow(emitted.onDeleteClick[i][j])

----------------------------------------------------------------------------
(* Properties of the filter values, checked under SpecVisibilityMenu *)

\* C39: every field with a non-empty filter value is the field of a visible,
\* filterable column, so that its filter input is rendered in the header.
C39_FiltersOnVisibleColumns ==
    \A f \in ActiveFilters : f \in FilterableFields /\ HeaderRendered(f)

----------------------------------------------------------------------------
(* Properties of the presentation maps, checked under SpecEditedImport *)

\* C40: in every reachable state, also after an import whose Metadata is
\* valid JSON, every value of columnPinning is 'left', 'right' or null and
\* every value of columnVisibility is a boolean.
C40_MapsWellTyped ==
    /\ \A f \in DOMAIN columnPinning : columnPinning[f] \in Positions
    /\ \A f \in DOMAIN columnVisibility : columnVisibility[f] \in BOOLEAN

====
